---- MODULE Spec2Model ----
(***************************************************************************)
(* A model of blot-bot core-lib: the instruction stream (validation,       *)
(* chunking, decoding; src/src/instruction/mod.rs) and the host side of    *)
(* the streaming protocol (greeting, listen loop, pause;                   *)
(* src/src/client/state.rs).                                               *)
(*                                                                         *)
(* Byte vectors are sequences of numbers 0..255.  The source indexes from  *)
(* 0 and TLA+ sequences from 1: At(s, i) is the source's s[i].  An index   *)
(* out of range, or an unwrap of None or Err, panics in the source; the    *)
(* operators return the tag "panic" there.                                 *)
(***************************************************************************)
EXTENDS Integers, Sequences, FiniteSets, TLC

\* ------------------------------------------------------------- bounds

\* SpecIns: an input vector is a concatenation of at most MaxPieces blocks.
MaxPieces == 3
\* SpecIns: get_buffer_bounds is called with sizes 6 .. MaxChunkSize.
MaxChunkSize == 12
\* API calls made on one InstructionSet.
MaxCalls == 2
\* Spec: the tasks that call pause, once each.
NumPausers == 1
\* Spec: 0x03 requests the firmware sends in a session.
MaxRequests == 4
\* SpecDraw: sample_xy and pop_sample calls made on one DrawSurface.
MaxDrawCalls == 4
\* blocks a slice handed to calculate_draw_time is built from, at most
MaxTimePieces == 2

\* ------------------------------------------------- program constants

\* get_buffer_bounds: "if max_chunk_size < 8" (instruction/mod.rs:99).
MIN_CHUNK == 8
\* parse_to_numerical_steps: self.get_buffer_bounds(4096) (instruction/mod.rs:160).
PARSE_CHUNK == 4096
\* listen: ins_set.get_buffer_bounds(32768) (client/state.rs:136).
LISTEN_CHUNK == 32768
\* ClientState::new: let mut inc_buffer = [0; 256] (client/state.rs:51).
INC_BUFFER_LEN == 256
\* listen: let mut incoming_buf: [u8; 255] = [0; 255] (client/state.rs:121).
INCOMING_BUF_LEN == 255
\* The opcodes of the instruction grammar (instruction/mod.rs:253, 256, 262).
EOI == 12
PEN_UP == 10
PEN_DOWN == 11

\* ------------------------------------------------------------ helpers

At(s, i) == s[i + 1]

\* s[lb ..= ub] of the source (both inclusive, 0-based).
Slice(s, lb, ub) == SubSeq(s, lb + 1, ub + 1)

\* s[start ..] of the source.
Suffix(s, start) == SubSeq(s, start + 1, Len(s))

RECURSIVE Flatten(_)
Flatten(ss) == IF ss = <<>> THEN <<>> ELSE Head(ss) \o Flatten(Tail(ss))

\* ------------------------------------------------ instruction/mod.rs

\* get_next_instruction_bounds(ins_bytes, cidx)
get_next_instruction_bounds(ins_bytes, cidx) ==
    LET potential_eoi_idx == cidx + 4 IN
    IF potential_eoi_idx >= Len(ins_bytes)
    THEN [tag |-> "EndOfStream", sb |-> cidx, eb |-> cidx]
    ELSE LET eoi == IF At(ins_bytes, potential_eoi_idx) = PEN_UP
                       \/ At(ins_bytes, potential_eoi_idx) = PEN_DOWN
                    THEN potential_eoi_idx + 1
                    ELSE potential_eoi_idx
         IN  IF eoi >= Len(ins_bytes)
             THEN [tag |-> "panic", sb |-> cidx, eb |-> cidx]
             ELSE IF At(ins_bytes, eoi) = EOI
                  THEN [tag |-> "Ok", sb |-> cidx, eb |-> eoi]
                  ELSE [tag |-> "InvalidInstruction", sb |-> cidx, eb |-> cidx]

\* The loop of is_stream_valid, entered with c_idx at the top of an iteration.
RECURSIVE stream_valid_loop(_, _)
stream_valid_loop(ins_bytes, c_idx0) ==
    LET c_idx == c_idx0 + 4 IN
    IF c_idx >= Len(ins_bytes) THEN [tag |-> "None", byte |-> 0]
    ELSE IF At(ins_bytes, c_idx) = EOI
         THEN stream_valid_loop(ins_bytes, c_idx + 1)
    ELSE IF At(ins_bytes, c_idx) = PEN_UP
         THEN IF c_idx + 1 >= Len(ins_bytes) THEN [tag |-> "panic", byte |-> 0]
              ELSE IF At(ins_bytes, c_idx + 1) = EOI
                   THEN stream_valid_loop(ins_bytes, c_idx + 2)
                   ELSE [tag |-> "IncompleteInstructions",
                         byte |-> At(ins_bytes, c_idx + 1)]
    ELSE IF At(ins_bytes, c_idx) = PEN_DOWN
         THEN IF c_idx + 1 >= Len(ins_bytes) THEN [tag |-> "panic", byte |-> 0]
              ELSE IF At(ins_bytes, c_idx + 1) = EOI
                   THEN stream_valid_loop(ins_bytes, c_idx + 2)
                   ELSE [tag |-> "IncompleteInstructions",
                         byte |-> At(ins_bytes, c_idx + 1)]
    ELSE [tag |-> "IncompleteInstructions", byte |-> At(ins_bytes, c_idx)]

\* The loop of is_stream_valid without its 0x0B arm: a pen-down instruction
\* is taken for a wrong terminator.
RECURSIVE stream_valid_loop_no_pen_down(_, _)
stream_valid_loop_no_pen_down(ins_bytes, c_idx0) ==
    LET c_idx == c_idx0 + 4 IN
    IF c_idx >= Len(ins_bytes) THEN [tag |-> "None", byte |-> 0]
    ELSE IF At(ins_bytes, c_idx) = EOI
         THEN stream_valid_loop_no_pen_down(ins_bytes, c_idx + 1)
    ELSE IF At(ins_bytes, c_idx) = PEN_UP
         THEN IF c_idx + 1 >= Len(ins_bytes) THEN [tag |-> "panic", byte |-> 0]
              ELSE IF At(ins_bytes, c_idx + 1) = EOI
                   THEN stream_valid_loop_no_pen_down(ins_bytes, c_idx + 2)
                   ELSE [tag |-> "IncompleteInstructions",
                         byte |-> At(ins_bytes, c_idx + 1)]
    ELSE [tag |-> "IncompleteInstructions", byte |-> At(ins_bytes, c_idx)]

is_stream_valid_no_pen_down(ins_bytes) ==
    IF ins_bytes = <<>> THEN [tag |-> "EmptyInstructionSet", byte |-> 0]
    ELSE stream_valid_loop_no_pen_down(ins_bytes, 0)

\* is_stream_valid(ins_bytes): tag "None" is the source's None (valid).
is_stream_valid(ins_bytes) ==
    IF ins_bytes = <<>> THEN [tag |-> "EmptyInstructionSet", byte |-> 0]
    ELSE stream_valid_loop(ins_bytes, 0)

\* The two nested loops of the closure of get_buffer_bounds.  One call is one
\* iteration of the inner loop; the break re-enters with the outer loop's
\* assignments (c_idx = last_valid_idx + 1, then start_idx and last_valid_idx
\* = c_idx).
RECURSIVE chunk_loop(_, _, _, _, _, _)
chunk_loop(bin, max_chunk_size, chunk_bounds, start_idx, last_valid_idx, c_idx) ==
    LET nxt == get_next_instruction_bounds(bin, c_idx) IN
    IF nxt.tag = "Ok"
    THEN IF nxt.eb >= start_idx + max_chunk_size
         THEN chunk_loop(bin, max_chunk_size,
                         Append(chunk_bounds, <<start_idx, last_valid_idx>>),
                         last_valid_idx + 1, last_valid_idx + 1, last_valid_idx + 1)
         ELSE chunk_loop(bin, max_chunk_size, chunk_bounds,
                         start_idx, nxt.eb, nxt.eb + 1)
    ELSE IF nxt.tag = "EndOfStream"
         THEN [tag |-> "Ok", bounds |-> Append(chunk_bounds, <<start_idx, last_valid_idx>>)]
    ELSE IF nxt.tag = "panic"
         THEN [tag |-> "panic", bounds |-> <<>>]
    ELSE [tag |-> "IncompleteInstructions", bounds |-> <<>>]

\* The closure handed to get_or_try_init.
compute_buffer_bounds(bin, max_chunk_size) ==
    IF max_chunk_size < MIN_CHUNK
    THEN [tag |-> "BufferTooSmall", bounds |-> <<>>]
    ELSE chunk_loop(bin, max_chunk_size, <<>>, 0, 0, 0)

\* OnceCell::get_or_try_init: an initialised cell is returned as it is, the
\* closure and its max_chunk_size are not looked at.
get_buffer_bounds(bin, cache, max_chunk_size) ==
    IF cache.set THEN [tag |-> "Ok", bounds |-> cache.val]
    ELSE compute_buffer_bounds(bin, max_chunk_size)

\* The cell after get_buffer_bounds: filled by the first Ok, never refilled.
cache_after(cache, res) ==
    IF ~cache.set /\ res.tag = "Ok" THEN [set |-> TRUE, val |-> res.bounds]
    ELSE cache

EmptyCache == [set |-> FALSE, val |-> <<>>]

\* BigEndian::read_i16 of the two bytes hi, lo.
read_i16(hi, lo) ==
    LET u == hi * 256 + lo IN IF u >= 32768 THEN u - 65536 ELSE u

\* The loops of parse_to_numerical_steps: i is the position of the bound pair
\* (s_idx, e_idx) the for loop is at, c_idx the cursor of its inner loop, pen_up
\* the latch and acc the vector numerical_instructions.
RECURSIVE parse_loop(_, _, _, _, _, _)
parse_loop(bin, bounds, i, c_idx, pen_up, acc) ==
    IF i > Len(bounds) THEN [tag |-> "Ok", steps |-> acc]
    ELSE
    LET e_idx == bounds[i][2]
        nxt == get_next_instruction_bounds(bin, c_idx)
    IN
    IF nxt.tag = "Ok"
    THEN LET sb == nxt.sb
             eb == nxt.eb
             left_steps == read_i16(At(bin, sb), At(bin, sb + 1))
             right_steps == read_i16(At(bin, sb + 2), At(bin, sb + 3))
             plain == sb + 4 = eb /\ At(bin, sb + 4) = EOI
             bad == ~plain /\ At(bin, sb + 4) # PEN_UP /\ At(bin, sb + 4) # PEN_DOWN
             latch == IF plain THEN pen_up
                      ELSE IF At(bin, sb + 4) = PEN_UP THEN TRUE
                      ELSE IF At(bin, sb + 4) = PEN_DOWN THEN FALSE
                      ELSE pen_up
             acc2 == Append(acc, <<left_steps, right_steps, latch>>)
         IN  IF bad THEN [tag |-> "IncompleteInstructions", steps |-> <<>>]
             ELSE IF eb = e_idx
                  THEN IF i + 1 > Len(bounds) THEN [tag |-> "Ok", steps |-> acc2]
                       ELSE parse_loop(bin, bounds, i + 1, bounds[i + 1][1], latch, acc2)
                  ELSE parse_loop(bin, bounds, i, eb + 1, latch, acc2)
    ELSE IF nxt.tag = "panic" THEN [tag |-> "panic", steps |-> <<>>]
    ELSE [tag |-> "IncompleteInstructions", steps |-> <<>>]

\* parse_to_numerical_steps(&self)
parse_to_numerical_steps(bin, cache) ==
    LET result_buffer_bounds == get_buffer_bounds(bin, cache, PARSE_CHUNK) IN
    IF result_buffer_bounds.tag # "Ok"
    THEN [tag |-> result_buffer_bounds.tag, steps |-> <<>>]
    ELSE parse_loop(bin, result_buffer_bounds.bounds, 1,
                    result_buffer_bounds.bounds[1][1], TRUE, <<>>)

\* --------------------------------------------------------------- state

VARIABLES
    \* the InstructionSet
    ins_bytes,           \* the vector handed to InstructionSet::new
    ins_new,             \* what InstructionSet::new returned ("uncalled" before)
    binary,              \* InstructionSet.binary
    buffer_bound_cache,  \* InstructionSet.buffer_bound_cache (the OnceCell)
    call,                \* the last call made on the InstructionSet and its result
    ncalls,              \* calls made on the InstructionSet so far
    \* the connection
    conn,                \* "none", "open", or "reset" (reads and writes fail)
    peer,                \* "open", or "closed": the firmware closed the socket
    inbox,               \* bytes the firmware sent that the host has not read
    write_half,          \* "open", or "shutdown" after writer.shutdown()
    log,                 \* what the host did, in order: write_all calls, emits, shutdown
    fw_sent,             \* 0x03 requests the firmware has sent
    \* ClientState::new
    n_pc,                \* where ClientState::new is
    new_result,          \* what ClientState::new returned ("none" before)
    inc_buffer,          \* the bytes its read put into inc_buffer (the rest is 0)
    header,              \* what read_header returned
    \* ClientState::listen
    lpc,                 \* where listen is
    incoming_buf,        \* the bytes the last read put into incoming_buf
    buf_idx,             \* the usize behind the buf_idx mutex
    idx_lock,            \* who holds the buf_idx mutex
    write_lock,          \* who holds the write_ref mutex
    lb_ub,               \* listen's (lb, ub)
    \* the pause callers
    ppc,                 \* where each caller is
    pflag,               \* each caller's should_pause
    pio,                 \* each caller's write_all: its calls, its io::Result, what pause returned
    \* history
    read_gt1,            \* a read of listen returned more than one byte
    closed_at            \* Len(log) when a read of listen first returned 0 bytes or Err

ins_vars == <<ins_bytes, ins_new, binary, buffer_bound_cache, call, ncalls>>

conn_vars == <<conn, peer, inbox, write_half, log, fw_sent>>

new_vars == <<n_pc, new_result, inc_buffer, header>>

listen_vars == <<lpc, incoming_buf, buf_idx, idx_lock, write_lock, lb_ub>>

pause_vars == <<ppc, pflag, pio>>

hist_vars == <<read_gt1, closed_at>>

\* the DrawSurface
VARIABLES
    ds,                  \* the DrawSurface: first_sample, current_ins, belts
    ds_last,             \* the last call made on it, its result and the surface before it
    ds_undo,             \* the surfaces before each instruction-emitting sample_xy not yet popped
    ds_emitted,          \* successful sample_xy calls after the first
    ds_popped,           \* successful pop_sample calls
    build                \* "debug" (overflow checks on) or "release" (wrapping)

ds_vars == <<ds, ds_last, ds_undo, ds_emitted, ds_popped, build>>

\* move_to_start
VARIABLES
    m_pc,                \* where move_to_start is
    m_result,            \* what it returned ("none" before)
    sent_move_bytes,     \* its local of that name
    m_incoming,          \* the bytes its last read put into incoming_buf
    m_reply,             \* what the firmware answered the greeting with (<<>> before)
    m_lens,              \* the lengths of the firmware's messages waiting in inbox
    m_reqs_read,         \* 0x03 requests its reads have taken off the socket
    m_split              \* a read of it returned more than one message

mv_vars == <<m_pc, m_result, sent_move_bytes, m_incoming, m_reply, m_lens,
             m_reqs_read, m_split>>

\* calculate_draw_time
VARIABLES
    dt_bytes,            \* the slice handed to calculate_draw_time
    dt_speed,            \* its max_motor_speed argument
    dt                   \* the call made and what came of it

dt_vars == <<dt_bytes, dt_speed, dt>>

sess_vars == <<conn_vars, new_vars, listen_vars, pause_vars, hist_vars>>

vars == <<ins_vars, sess_vars, ds_vars, mv_vars, dt_vars>>

\* ------------------------------------------------- inputs of SpecIns

\* The blocks input vectors are built from: well-formed instructions (plain,
\* pen up, pen down, and one whose step bytes are the opcodes themselves), and
\* the malformed ones (a lone byte, four bytes, a wrong terminator, a pen op
\* as the last byte, a pen op followed by a wrong terminator).
Pieces ==
    { <<0, 1, 0, 2, 12>>, <<0, 3, 255, 254, 10, 12>>, <<128, 0, 0, 4, 11, 12>>,
      <<12, 10, 11, 12, 12>>,
      <<7>>, <<0, 5, 0, 6>>, <<0, 1, 0, 2, 13>>, <<0, 1, 0, 2, 10>>,
      <<0, 1, 0, 2, 11, 13>> }

RECURSIVE PieceSeqs(_)
PieceSeqs(n) ==
    IF n = 0 THEN { <<>> }
    ELSE LET shorter == PieceSeqs(n - 1) IN
         shorter \cup { Append(ps, p) : ps \in { q \in shorter : Len(q) = n - 1 }, p \in Pieces }

InputStreams == { Flatten(ps) : ps \in PieceSeqs(MaxPieces) }

ChunkSizes == 6 .. MaxChunkSize

NoCall == [op |-> "none", k |-> 0, fresh |-> FALSE, tag |-> "none",
           bounds |-> <<>>, steps |-> <<>>]

\* ------------------------------------------ InstructionSet operations

\* InstructionSet::new(ins_bytes, init_x, init_y): the Result, with the
\* binary the InstructionSet stores when it is Ok.
InstructionSet_new(bytes) ==
    LET err == is_stream_valid(bytes) IN
    IF err.tag = "None" THEN [tag |-> "Ok", binary |-> bytes]
    ELSE [tag |-> err.tag, binary |-> <<>>]

\* new_from_idx with the bound test off by one: start_idx = len gets through
\* to the slice and the validator.
new_from_idx_gt(bytes, start_idx) ==
    IF start_idx > Len(bytes) THEN [tag |-> "StartOutOfBounds", binary |-> <<>>]
    ELSE LET err == is_stream_valid(Suffix(bytes, start_idx)) IN
         IF err.tag = "None" THEN [tag |-> "Ok", binary |-> Suffix(bytes, start_idx)]
         ELSE [tag |-> err.tag, binary |-> <<>>]

\* InstructionSet::new_from_idx(ins_bytes, init_x, init_y, start_idx)
new_from_idx(bytes, start_idx) ==
    IF start_idx >= Len(bytes) THEN [tag |-> "StartOutOfBounds", binary |-> <<>>]
    ELSE LET err == is_stream_valid(Suffix(bytes, start_idx)) IN
         IF err.tag = "None" THEN [tag |-> "Ok", binary |-> Suffix(bytes, start_idx)]
         ELSE [tag |-> err.tag, binary |-> <<>>]

\* A call of InstructionSet::new
InsNew ==
    /\ ins_new = "uncalled"
    /\ LET res == InstructionSet_new(ins_bytes) IN
       /\ ins_new' = res.tag
       /\ binary' = res.binary
       /\ call' = [NoCall EXCEPT !.op = "new", !.tag = res.tag]
    /\ UNCHANGED <<ins_bytes, buffer_bound_cache, ncalls>>
    /\ UNCHANGED <<sess_vars, ds_vars, mv_vars, dt_vars>>

\* A call of InstructionSet::new_from_idx; call.k keeps start_idx.
InsNewFromIdx(start_idx) ==
    /\ ins_new = "uncalled"
    /\ LET res == new_from_idx(ins_bytes, start_idx) IN
       /\ ins_new' = res.tag
       /\ binary' = res.binary
       /\ call' = [NoCall EXCEPT !.op = "new_from_idx", !.k = start_idx,
                                 !.tag = res.tag]
    /\ UNCHANGED <<ins_bytes, buffer_bound_cache, ncalls>>
    /\ UNCHANGED <<sess_vars, ds_vars, mv_vars, dt_vars>>

\* InstructionSet::get_buffer_bounds(&self, max_chunk_size)
GetBufferBounds(max_chunk_size) ==
    /\ ins_new = "Ok"
    /\ ncalls < MaxCalls
    /\ LET res == get_buffer_bounds(binary, buffer_bound_cache, max_chunk_size) IN
       /\ buffer_bound_cache' = cache_after(buffer_bound_cache, res)
       /\ call' = [op |-> "get_buffer_bounds", k |-> max_chunk_size,
                   fresh |-> ~buffer_bound_cache.set, tag |-> res.tag,
                   bounds |-> res.bounds, steps |-> <<>>]
    /\ ncalls' = ncalls + 1
    /\ UNCHANGED <<ins_bytes, ins_new, binary>>
    /\ UNCHANGED <<sess_vars, ds_vars, mv_vars, dt_vars>>

\* InstructionSet::parse_to_numerical_steps(&self)
ParseToNumericalSteps ==
    /\ ins_new = "Ok"
    /\ ncalls < MaxCalls
    /\ LET bb == get_buffer_bounds(binary, buffer_bound_cache, PARSE_CHUNK)
           res == parse_to_numerical_steps(binary, buffer_bound_cache)
       IN
       /\ buffer_bound_cache' = cache_after(buffer_bound_cache, bb)
       /\ call' = [op |-> "parse_to_numerical_steps", k |-> PARSE_CHUNK,
                   fresh |-> ~buffer_bound_cache.set, tag |-> res.tag,
                   bounds |-> <<>>, steps |-> res.steps]
    /\ ncalls' = ncalls + 1
    /\ UNCHANGED <<ins_bytes, ins_new, binary>>
    /\ UNCHANGED <<sess_vars, ds_vars, mv_vars, dt_vars>>


\* -------------------------------------------------- client/state.rs

\* A fixed-size buffer that starts as zeros ([0; 256], [0; 255]) and holds the
\* bytes a read put at its front: buf is those bytes, Buf(buf, i) the array's
\* i-th byte.
Buf(buf, i) == IF i < Len(buf) THEN buf[i + 1] ELSE 0

\* bytes_to_u16(array, index), on the 256-byte inc_buffer
bytes_to_u16(array, index) ==
    IF index + 1 > INC_BUFFER_LEN THEN 0
    ELSE Buf(array, index) * 256 + Buf(array, index + 1)

\* bytes_to_u32(array, index), on the 256-byte inc_buffer
bytes_to_u32(array, index) ==
    IF index + 3 > INC_BUFFER_LEN THEN 0
    ELSE Buf(array, index) * 16777216 + Buf(array, index + 1) * 65536
         + Buf(array, index + 2) * 256 + Buf(array, index + 3)

\* read_header with every field read least significant byte first.
read_header_le(hdr) ==
    [protocol_version |-> Buf(hdr, 1) + Buf(hdr, 2) * 256,
     instruction_buffer_size |-> Buf(hdr, 7) + Buf(hdr, 8) * 256
                                 + Buf(hdr, 9) * 65536 + Buf(hdr, 10) * 16777216,
     max_motor_speed |-> Buf(hdr, 11) + Buf(hdr, 12) * 256
                         + Buf(hdr, 13) * 65536 + Buf(hdr, 14) * 16777216,
     min_pulse_width |-> Buf(hdr, 15) + Buf(hdr, 16) * 256
                         + Buf(hdr, 17) * 65536 + Buf(hdr, 18) * 16777216]

\* read_header(header)
read_header(hdr) ==
    [protocol_version |-> bytes_to_u16(hdr, 1),
     instruction_buffer_size |-> bytes_to_u32(hdr, 7),
     max_motor_speed |-> bytes_to_u32(hdr, 11),
     min_pulse_width |-> bytes_to_u32(hdr, 15)]

NoHeader ==
    [protocol_version |-> 0, instruction_buffer_size |-> 0,
     max_motor_speed |-> 0, min_pulse_width |-> 0]

\* greeting_result with the busy answer taken for a go-ahead.
greeting_result_busy_ok(first_byte) ==
    IF first_byte = 1 \/ first_byte = 0 THEN "Ok" ELSE "MachineInUse"

\* ClientState::new, lines 56-70: what the first byte of the reply decides.
greeting_result(first_byte) ==
    IF first_byte = 1 THEN "Ok"
    ELSE IF first_byte = 0 THEN "MachineInUse"
    ELSE "MachineInUse"

\* listen, line 138: *next_buf_lock - 1 == bounds.len()
is_finished(next_buf, bounds) == next_buf - 1 = Len(bounds)

\* The tasks: mutex holders and the authors of log entries.
Free == <<"free">>
NewTask == <<"new">>
Listener == <<"listen">>
Pausers == { <<"pause", i>> : i \in 1 .. NumPausers }

\* Log entries.  part tells the write_all calls of a chunk message apart:
\* "opcode" is listen's [0x01], "body" the chunk that follows, "whole" a message
\* handed over by one write_all.
Wrote(by, part, bytes) ==
    [kind |-> "write", by |-> by, part |-> part, bytes |-> bytes, ev |-> "", k |-> 0, n |-> 0]
Emitted(by, ev, k, n) ==
    [kind |-> "emit", by |-> by, part |-> "", bytes |-> <<>>, ev |-> ev, k |-> k, n |-> n]
ShutDown(by) ==
    [kind |-> "shutdown", by |-> by, part |-> "", bytes |-> <<>>, ev |-> "", k |-> 0, n |-> 0]

\* let _ = writer.write_all(bytes).await: the bytes reach the socket unless
\* the connection is broken or the write half is shut down; the Err is dropped.
write_all(lg, by, part, bytes) ==
    IF conn = "open" /\ write_half = "open"
    THEN Append(lg, Wrote(by, part, bytes))
    ELSE lg

\* ---------------------------------------------------- the firmware

\* A u32 as the firmware sends it, big-endian.
u32_be(x) == << x \div 16777216, (x \div 65536) % 256, (x \div 256) % 256, x % 256 >>

\* The reply to the greeting: 0x01 and the header (protocol version 1, four
\* reserved bytes, the buffer size, max motor speed 1000, min pulse width 5).
HeaderReply(size) ==
    <<1, 0, 1, 0, 0, 0, 0>> \o u32_be(size) \o u32_be(1000) \o u32_be(5)

\* The instruction_buffer_size values the firmware of the model reports: any
\* u32 can come off the wire; 4 is smaller than a chunk of the session's
\* stream, 512 and 1024 are not.
ReportedSizes == {4, 512, 1024}

\* What the firmware answers the greeting with: busy, a header, or a byte
\* that is neither.
GreetingReplies == { <<0>>, <<2>> } \cup { HeaderReply(sz) : sz \in ReportedSizes }

\* The firmware asks for the next chunk.
FwRequest ==
    /\ conn = "open" /\ peer = "open" /\ new_result = "Ok"
    /\ fw_sent < MaxRequests
    /\ inbox' = Append(inbox, 3)
    /\ fw_sent' = fw_sent + 1
    /\ UNCHANGED <<ds_vars, mv_vars, dt_vars, ins_vars, conn, peer, write_half, log, new_vars, listen_vars,
                   pause_vars, hist_vars>>

\* The firmware closes the socket: reads return 0 bytes once inbox is drained.
FwClose ==
    /\ conn = "open" /\ peer = "open"
    /\ peer' = "closed"
    /\ UNCHANGED <<ds_vars, mv_vars, dt_vars, ins_vars, conn, inbox, write_half, log, fw_sent, new_vars,
                   listen_vars, pause_vars, hist_vars>>

\* The connection breaks: reads and writes fail from here on.
ConnReset ==
    /\ conn = "open"
    /\ conn' = "reset"
    /\ inbox' = <<>>
    /\ UNCHANGED <<ds_vars, mv_vars, dt_vars, ins_vars, peer, write_half, log, fw_sent, new_vars, listen_vars,
                   pause_vars, hist_vars>>

\* ------------------------------------------------- ClientState::new

\* TcpStream::connect(...).await, lines 42-47
NewConnect ==
    /\ n_pc = "start"
    /\ \/ /\ conn' = "open"
          /\ n_pc' = "connected"
          /\ UNCHANGED new_result
       \/ /\ new_result' = "MachineNotFound"
          /\ n_pc' = "done"
          /\ UNCHANGED conn
    /\ UNCHANGED <<ds_vars, mv_vars, dt_vars, ins_vars, peer, inbox, write_half, log, fw_sent, inc_buffer, header,
                   listen_vars, pause_vars, hist_vars>>

\* let _ = safe_socket.write_all(&[0x00, 0x01]).await, line 50
NewGreet ==
    /\ n_pc = "connected"
    /\ log' = write_all(log, NewTask, "whole", <<0, 1>>)
    /\ n_pc' = "greeted"
    /\ UNCHANGED <<ds_vars, mv_vars, dt_vars, ins_vars, conn, peer, inbox, write_half, fw_sent, new_result,
                   inc_buffer, header, listen_vars, pause_vars, hist_vars>>

\* safe_socket.read(&mut inc_buffer).await and the rest of new, lines 51-72.
\* The read fails on a broken connection, returns 0 bytes on a closed one and
\* otherwise the firmware's reply.
NewRead ==
    /\ n_pc = "greeted"
    /\ \/ /\ conn = "reset"
          /\ new_result' = "GreetingTimedOut"
          /\ UNCHANGED <<inc_buffer, header>>
       \/ /\ conn = "open"
          /\ \E reply \in (IF peer = "open" THEN GreetingReplies ELSE { <<>> }) :
                /\ inc_buffer' = reply
                /\ new_result' = greeting_result(Buf(reply, 0))
                /\ header' = IF Buf(reply, 0) = 1 THEN read_header(reply) ELSE NoHeader
    /\ n_pc' = "done"
    /\ UNCHANGED <<ds_vars, mv_vars, dt_vars, ins_vars, conn_vars, listen_vars, pause_vars, hist_vars>>

\* ---------------------------------------------- ClientState::listen

\* The caller splits the socket ClientState::new returned and runs listen on
\* the halves (signature, line 114).
ListenStart ==
    /\ lpc = "idle"
    /\ new_result = "Ok"
    /\ lpc' = "read"
    /\ UNCHANGED <<ds_vars, mv_vars, dt_vars, ins_vars, conn_vars, new_vars, incoming_buf, buf_idx, idx_lock,
                   write_lock, lb_ub, pause_vars, hist_vars>>

\* let _ = reader.read(&mut incoming_buf).await, lines 121-122.  A read
\* returns any number of the waiting bytes, at most the buffer's size; on a
\* closed or broken connection it returns Ok(0) or Err, which is dropped, and
\* the buffer stays zero.
ListenRead ==
    /\ lpc = "read"
    /\ \/ /\ conn = "open" /\ inbox # <<>>
          /\ \E cnt \in 1 .. Len(inbox) :
                /\ cnt <= INCOMING_BUF_LEN
                /\ incoming_buf' = SubSeq(inbox, 1, cnt)
                /\ inbox' = SubSeq(inbox, cnt + 1, Len(inbox))
                /\ read_gt1' = (read_gt1 \/ cnt > 1)
          /\ UNCHANGED closed_at
       \/ /\ \/ conn = "reset"
             \/ conn = "open" /\ inbox = <<>> /\ peer = "closed"
          /\ incoming_buf' = <<>>
          /\ closed_at' = IF closed_at = -1 THEN Len(log) ELSE closed_at
          /\ UNCHANGED <<inbox, read_gt1>>
    /\ lpc' = "check"
    /\ UNCHANGED <<ds_vars, mv_vars, dt_vars, ins_vars, conn, peer, write_half, log, fw_sent, new_vars, buf_idx,
                   idx_lock, write_lock, lb_ub, pause_vars>>

\* if *incoming_buf.get(0).unwrap() == 0x03, line 132; otherwise the loop
\* starts over with a new zeroed buffer.
ListenCheck ==
    /\ lpc = "check"
    /\ lpc' = IF Buf(incoming_buf, 0) = 3 THEN "lock_idx" ELSE "read"
    /\ incoming_buf' = <<>>
    /\ UNCHANGED <<ds_vars, mv_vars, dt_vars, ins_vars, conn_vars, new_vars, buf_idx, idx_lock, write_lock, lb_ub,
                   pause_vars, hist_vars>>

\* Lines 133-160: lock buf_idx, add one, get the bounds; then either go on to
\* the completion path with the lock held, or emit the progress event, pick
\* (lb, ub) and drop the lock.  The unwraps panic on an Err from
\* get_buffer_bounds and on an index past the bounds.
ListenRequest ==
    /\ lpc = "lock_idx"
    /\ idx_lock = Free
    /\ LET next_buf == buf_idx + 1
           res == get_buffer_bounds(binary, buffer_bound_cache, LISTEN_CHUNK)
       IN
       /\ buf_idx' = next_buf
       /\ buffer_bound_cache' = cache_after(buffer_bound_cache, res)
       /\ IF res.tag # "Ok"
          THEN /\ lpc' = "panicked"
               /\ UNCHANGED <<log, idx_lock, lb_ub>>
          ELSE IF is_finished(next_buf, res.bounds)
          THEN /\ lpc' = "fin_lock"
               /\ idx_lock' = Listener
               /\ UNCHANGED <<log, lb_ub>>
          ELSE /\ log' = Append(log, Emitted(Listener, "drawing", next_buf, Len(res.bounds)))
               /\ IF next_buf - 1 < Len(res.bounds)
                  THEN /\ lb_ub' = res.bounds[next_buf]
                       /\ lpc' = "chunk_lock"
                  ELSE /\ lpc' = "panicked"
                       /\ UNCHANGED lb_ub
               /\ UNCHANGED idx_lock
    /\ UNCHANGED <<ds_vars, mv_vars, dt_vars, ins_bytes, ins_new, binary, call, ncalls, conn, peer, inbox,
                   write_half, fw_sent, new_vars, incoming_buf, write_lock,
                   pause_vars, hist_vars>>

\* write_ref.lock().await, line 140
ListenFinLock ==
    /\ lpc = "fin_lock"
    /\ write_lock = Free
    /\ write_lock' = Listener
    /\ lpc' = "fin_write"
    /\ UNCHANGED <<ds_vars, mv_vars, dt_vars, ins_vars, conn_vars, new_vars, incoming_buf, buf_idx, idx_lock,
                   lb_ub, pause_vars, hist_vars>>

\* let _ = writer.write_all(&[0x02]).await, line 142
ListenFinWrite ==
    /\ lpc = "fin_write"
    /\ log' = write_all(log, Listener, "whole", <<2>>)
    /\ lpc' = "fin_shutdown"
    /\ UNCHANGED <<ds_vars, mv_vars, dt_vars, ins_vars, conn, peer, inbox, write_half, fw_sent, new_vars,
                   incoming_buf, buf_idx, idx_lock, write_lock, lb_ub, pause_vars,
                   hist_vars>>

\* let _ = writer.shutdown().await, both locks dropped, return: lines 145-151
ListenFinShutdown ==
    /\ lpc = "fin_shutdown"
    /\ write_half' = "shutdown"
    /\ log' = Append(log, ShutDown(Listener))
    /\ write_lock' = Free
    /\ idx_lock' = Free
    /\ lpc' = "returned"
    /\ UNCHANGED <<ds_vars, mv_vars, dt_vars, ins_vars, conn, peer, inbox, fw_sent, new_vars, incoming_buf,
                   buf_idx, lb_ub, pause_vars, hist_vars>>

\* write_ref.lock().await, line 162
ListenChunkLock ==
    /\ lpc = "chunk_lock"
    /\ write_lock = Free
    /\ write_lock' = Listener
    /\ lpc' = "chunk_opcode"
    /\ UNCHANGED <<ds_vars, mv_vars, dt_vars, ins_vars, conn_vars, new_vars, incoming_buf, buf_idx, idx_lock,
                   lb_ub, pause_vars, hist_vars>>

\* ListenWriteOpcode with the write mutex dropped after the opcode, as if each
\* write_all took the lock for itself.
ListenWriteOpcode_unlocked ==
    /\ lpc = "chunk_opcode"
    /\ log' = write_all(log, Listener, "opcode", <<1>>)
    /\ write_lock' = Free
    /\ lpc' = "chunk_body"
    /\ UNCHANGED <<ds_vars, mv_vars, dt_vars, ins_vars, conn, peer, inbox, write_half, fw_sent, new_vars,
                   incoming_buf, buf_idx, idx_lock, lb_ub, pause_vars, hist_vars>>

\* let _ = writer.write_all(&[0x01]).await, line 164
ListenWriteOpcode ==
    /\ lpc = "chunk_opcode"
    /\ log' = write_all(log, Listener, "opcode", <<1>>)
    /\ lpc' = "chunk_body"
    /\ UNCHANGED <<ds_vars, mv_vars, dt_vars, ins_vars, conn, peer, inbox, write_half, fw_sent, new_vars,
                   incoming_buf, buf_idx, idx_lock, write_lock, lb_ub, pause_vars,
                   hist_vars>>

\* ListenWriteBody without the drop of the write lock.
ListenWriteBody_keeps_lock ==
    /\ lpc = "chunk_body"
    /\ log' = write_all(log, Listener, "body", Slice(binary, lb_ub[1], lb_ub[2]))
    /\ lpc' = "read"
    /\ UNCHANGED <<ds_vars, mv_vars, dt_vars, ins_vars, conn, peer, inbox, write_half, fw_sent, new_vars,
                   incoming_buf, buf_idx, idx_lock, write_lock, lb_ub, pause_vars, hist_vars>>

\* let _ = writer.write_all(&ins_set.get_binary()[*lb..=*ub]).await and
\* drop(write_lock), lines 165-166
ListenWriteBody ==
    /\ lpc = "chunk_body"
    /\ log' = write_all(log, Listener, "body", Slice(binary, lb_ub[1], lb_ub[2]))
    /\ write_lock' = Free
    /\ lpc' = "read"
    /\ UNCHANGED <<ds_vars, mv_vars, dt_vars, ins_vars, conn, peer, inbox, write_half, fw_sent, new_vars,
                   incoming_buf, buf_idx, idx_lock, lb_ub, pause_vars, hist_vars>>

ListenNext ==
    \/ ListenStart
    \/ ListenRead
    \/ ListenCheck
    \/ ListenRequest
    \/ ListenFinLock
    \/ ListenFinWrite
    \/ ListenFinShutdown
    \/ ListenChunkLock
    \/ ListenWriteOpcode
    \/ ListenWriteBody

\* ----------------------------------------------- ClientState::pause

\* A caller takes the write half out of the shared mutex (the writer argument
\* of pause is a &mut OwnedWriteHalf) and chooses should_pause.
PauseAcquire(p) ==
    /\ ppc[p] = "idle"
    /\ new_result = "Ok"
    /\ write_lock = Free
    /\ write_lock' = p
    /\ \E should_pause \in BOOLEAN : pflag' = [pflag EXCEPT ![p] = should_pause]
    /\ ppc' = [ppc EXCEPT ![p] = "locked"]
    /\ UNCHANGED <<ds_vars, mv_vars, dt_vars, ins_vars, conn_vars, new_vars, lpc, incoming_buf, buf_idx, idx_lock,
                   lb_ub, pio, hist_vars>>

\* The io::Result of a write_all on the socket as it is now.
write_result == IF conn = "open" /\ write_half = "open" THEN "Ok" ELSE "Err"

\* What pause hands back to its caller: the function has no return type, so
\* the unit value whatever the write's result was (line 95 drops it).
pause_returns(io) == "unit"

\* The body of pause, lines 89-97: one write_all of [0x04, flag_byte], its
\* result dropped, then the emit.
PauseWrite(p) ==
    /\ ppc[p] = "locked"
    /\ LET flag_byte == IF pflag[p] THEN 1 ELSE 0 IN
       log' = Append(write_all(log, p, "whole", <<4, flag_byte>>),
                     Emitted(p, "drawing", flag_byte, 0))
    /\ pio' = [pio EXCEPT ![p] = [calls |-> pio[p].calls + 1, io |-> write_result,
                                  ret |-> pause_returns(write_result)]]
    /\ ppc' = [ppc EXCEPT ![p] = "written"]
    /\ UNCHANGED <<ds_vars, mv_vars, dt_vars, ins_vars, conn, peer, inbox, write_half, fw_sent, new_vars,
                   listen_vars, pflag, hist_vars>>

\* pause has returned; the caller drops its guard.
PauseRelease(p) ==
    /\ ppc[p] = "written"
    /\ write_lock' = Free
    /\ ppc' = [ppc EXCEPT ![p] = "done"]
    /\ UNCHANGED <<ds_vars, mv_vars, dt_vars, ins_vars, conn_vars, new_vars, lpc, incoming_buf, buf_idx, idx_lock,
                   lb_ub, pflag, pio, hist_vars>>

\* ---------------------------------------------------- drawing/mod.rs

\* Lengths are held in half steps: a belt length of n stands for n / 2 motor
\* steps (n / (2 * steps_per_mm()) mm), so that the f64 products
\* delta_length * steps_per_mm() of the source are the integers below, with
\* their halves.  The rounding error of f64 arithmetic itself is not modelled.

\* drawing/mod.rs:123: i16::MAX and i16::MIN.
I16_MAX == 32767
I16_MIN == -32768

\* f64::round of h / 2: to the nearest integer, halves away from zero.
round(h) ==
    IF h % 2 = 0 THEN h \div 2
    ELSE IF h > 0 THEN (h + 1) \div 2 ELSE (h - 1) \div 2

\* The negation -v of an i16: i16::MIN has no negative; a debug build panics,
\* a release build wraps to i16::MIN.
neg_i16(v, bld) ==
    IF v # I16_MIN THEN [tag |-> "Ok", v |-> -v]
    ELSE IF bld = "debug" THEN [tag |-> "panic", v |-> 0]
    ELSE [tag |-> "Ok", v |-> I16_MIN]

\* BigEndian::write_i16: the two bytes of v.
write_i16(v) ==
    LET u == (v + 65536) % 65536 IN << u \div 256, u % 256 >>

\* LittleEndian::read_i16 of the two bytes lo, hi.
read_i16_le(lo, hi) == read_i16(hi, lo)

\* Belts::move_by_steps(left_steps, right_steps) on the pair of lengths.
move_by_steps(belts, left_steps, right_steps) ==
    << belts[1] + 2 * left_steps, belts[2] + 2 * right_steps >>

\* cartesian_to_belt on the sample points of the model: a point is given by
\* the belt lengths of its position, [l |-> left, r |-> right] in half steps.
cartesian_to_belt(pt) == << pt.l, pt.r >>

\* DrawSurface::new: belts at cartesian_to_belt(0, 0, 0) = (0, 0).
DrawSurface_new == [first_sample |-> <<>>, current_ins |-> <<>>, belts |-> <<0, 0>>]

\* DrawSurface::sample_xy(&mut self, x, y): the Result and the surface after
\* the call (as it was when the call panicked).
sample_xy(surf, pt, bld) ==
    IF surf.first_sample = <<>>
    THEN [tag |-> "Ok",
          ds |-> [surf EXCEPT !.first_sample = <<pt>>, !.belts = cartesian_to_belt(pt)]]
    ELSE
    LET new == cartesian_to_belt(pt)
        delta_left_steps == new[1] - surf.belts[1]
        delta_right_steps == -(new[2] - surf.belts[2])
    IN
    IF \/ delta_left_steps >= 2 * I16_MAX \/ delta_left_steps <= 2 * I16_MIN
       \/ delta_right_steps >= 2 * I16_MAX \/ delta_right_steps <= 2 * I16_MIN
    THEN [tag |-> "Err", ds |-> surf]
    ELSE
    LET ls == round(delta_left_steps)
        rs == round(delta_right_steps)
        neg_rs == neg_i16(rs, bld)
    IN
    IF neg_rs.tag = "panic" THEN [tag |-> "panic", ds |-> surf]
    ELSE [tag |-> "Ok",
          ds |-> [surf EXCEPT
                    !.belts = move_by_steps(surf.belts, ls, neg_rs.v),
                    !.current_ins = surf.current_ins \o write_i16(ls) \o write_i16(rs)
                                    \o <<EOI>>]]

\* pop_sample that leaves the first of the five bytes behind.
pop_sample_four_bytes(surf, bld) ==
    LET n == Len(surf.current_ins) IN
    IF n < 5 THEN [tag |-> "Err", ds |-> surf]
    ELSE
    LET rest == SubSeq(surf.current_ins, 1, n - 4)
        left_steps == read_i16_le(surf.current_ins[n - 3], surf.current_ins[n - 4])
        right_steps == read_i16_le(surf.current_ins[n - 1], surf.current_ins[n - 2])
        neg_ls == neg_i16(left_steps, bld)
    IN
    IF neg_ls.tag = "panic" THEN [tag |-> "panic", ds |-> [surf EXCEPT !.current_ins = rest]]
    ELSE [tag |-> "Ok",
          ds |-> [surf EXCEPT !.current_ins = rest,
                              !.belts = move_by_steps(surf.belts, neg_ls.v, right_steps)]]

\* DrawSurface::pop_sample(&mut self): the five bytes are popped before the
\* belts are moved, so a panic of the negation leaves them popped.
pop_sample(surf, bld) ==
    LET n == Len(surf.current_ins) IN
    IF n < 5 THEN [tag |-> "Err", ds |-> surf]
    ELSE
    LET rest == SubSeq(surf.current_ins, 1, n - 5)
        left_steps == read_i16_le(surf.current_ins[n - 3], surf.current_ins[n - 4])
        right_steps == read_i16_le(surf.current_ins[n - 1], surf.current_ins[n - 2])
        neg_ls == neg_i16(left_steps, bld)
    IN
    IF neg_ls.tag = "panic" THEN [tag |-> "panic", ds |-> [surf EXCEPT !.current_ins = rest]]
    ELSE [tag |-> "Ok",
          ds |-> [surf EXCEPT !.current_ins = rest,
                              !.belts = move_by_steps(surf.belts, neg_ls.v, right_steps)]]

\* The sample points of the model, by their belt lengths in half steps (a
\* machine with the motors 66000 steps apart reaches them all): a start, a
\* point a step and a half and two steps and a half away, points 32767.5
\* steps away on the left and on the right belt, one 32767 steps away, and
\* one 32766.5 steps away on both.
SamplePoints ==
    { [l |-> 100000, r |-> 100000], [l |-> 100003, r |-> 99995],
      [l |-> 34465, r |-> 100000], [l |-> 100000, r |-> 165535],
      [l |-> 165534, r |-> 100000], [l |-> 165533, r |-> 34467] }

NoDsCall == [op |-> "none", tag |-> "none", n |-> 0, pt |-> <<>>,
             pre |-> DrawSurface_new, undone |-> <<>>]

\* A call of sample_xy on the surface.
SampleXY(pt) ==
    /\ ds_last.tag # "panic"
    /\ ds_last.n < MaxDrawCalls
    /\ LET res == sample_xy(ds, pt, build)
           emits == res.tag = "Ok" /\ ds.first_sample # <<>>
       IN
       /\ ds' = res.ds
       /\ ds_last' = [op |-> "sample_xy", tag |-> res.tag, n |-> ds_last.n + 1,
                      pt |-> <<pt>>, pre |-> ds, undone |-> <<>>]
       /\ ds_undo' = IF emits THEN Append(ds_undo, ds) ELSE ds_undo
       /\ ds_emitted' = IF emits THEN ds_emitted + 1 ELSE ds_emitted
    /\ UNCHANGED <<ds_popped, build>>
    /\ UNCHANGED <<ins_vars, sess_vars, mv_vars, dt_vars>>

\* A call of pop_sample on the surface.
PopSample ==
    /\ ds_last.tag # "panic"
    /\ ds_last.n < MaxDrawCalls
    /\ LET res == pop_sample(ds, build) IN
       /\ ds' = res.ds
       /\ ds_last' = [op |-> "pop_sample", tag |-> res.tag, n |-> ds_last.n + 1,
                      pt |-> <<>>, pre |-> ds,
                      undone |-> IF ds_undo = <<>> THEN <<>>
                                 ELSE << ds_undo[Len(ds_undo)] >>]
       /\ ds_undo' = IF res.tag = "Ok" /\ ds_undo # <<>>
                     THEN SubSeq(ds_undo, 1, Len(ds_undo) - 1) ELSE ds_undo
       /\ ds_popped' = IF res.tag = "Ok" THEN ds_popped + 1 ELSE ds_popped
    /\ UNCHANGED <<ds_emitted, build>>
    /\ UNCHANGED <<ins_vars, sess_vars, mv_vars, dt_vars>>

\* No surface in use.
DsIdle ==
    /\ ds = DrawSurface_new /\ ds_last = NoDsCall /\ ds_undo = <<>>
    /\ ds_emitted = 0 /\ ds_popped = 0 /\ build = "release"

\* ------------------------------------------------- client/mod.rs

\* DrawSurface::pen_to_start_ins(physical_dimensions, init_x, init_y): a new
\* surface, sample_xy(0., 0.).unwrap(), sample_xy(init_x, init_y).unwrap(),
\* its current_ins.  origin is the page's top left corner.
pen_to_start_ins(origin, pt, bld) ==
    LET first == sample_xy(DrawSurface_new, origin, bld)
        second == sample_xy(first.ds, pt, bld)
    IN  IF first.tag = "Ok" /\ second.tag = "Ok"
        THEN [tag |-> "Ok", bytes |-> second.ds.current_ins]
        ELSE [tag |-> "panic", bytes |-> <<>>]

MoveTask == <<"move">>

\* The page corner and the start positions move_to_start is called with.
PageOrigin == [l |-> 100000, r |-> 100000]
StartPoints == { [l |-> 100003, r |-> 99995], [l |-> 165534, r |-> 100000] }

\* Sum of the first k lengths.
RECURSIVE SumLens(_, _)
SumLens(lens, k) == IF k = 0 THEN 0 ELSE lens[k] + SumLens(lens, k - 1)

\* move_to_start, lines 38-50: the instructions, the InstructionSet, connect.
MvBegin ==
    /\ m_pc = "start"
    /\ \E pt \in StartPoints, bld \in {"debug", "release"} :
         LET raw_ins == pen_to_start_ins(PageOrigin, pt, bld)
             ins_set == InstructionSet_new(raw_ins.bytes)
         IN
         IF raw_ins.tag = "panic"
         THEN /\ m_result' = "panic" /\ m_pc' = "done"
              /\ UNCHANGED <<ins_vars, conn, build>>
         ELSE /\ build' = bld
              /\ ins_bytes' = raw_ins.bytes
              /\ ins_new' = ins_set.tag
              /\ binary' = ins_set.binary
              /\ UNCHANGED <<buffer_bound_cache, call, ncalls>>
              /\ IF ins_set.tag # "Ok"
                 THEN /\ m_result' = "InvalidBytes" /\ m_pc' = "done"
                      /\ UNCHANGED conn
                 ELSE \/ /\ conn' = "open" /\ m_pc' = "connected"
                         /\ UNCHANGED m_result
                      \/ /\ m_result' = "MachineNotFound" /\ m_pc' = "done"
                         /\ UNCHANGED conn
    /\ UNCHANGED <<dt_vars, peer, inbox, write_half, log, fw_sent, new_vars, listen_vars,
                   pause_vars, hist_vars>>
    /\ UNCHANGED <<ds, ds_last, ds_undo, ds_emitted, ds_popped>>
    /\ UNCHANGED <<sent_move_bytes, m_incoming, m_reply, m_lens, m_reqs_read, m_split>>

\* let _ = safe_socket.write_all(&[0x00, 0x01]); sent_move_bytes = false
MvGreet ==
    /\ m_pc = "connected"
    /\ log' = write_all(log, MoveTask, "whole", <<0, 1>>)
    /\ sent_move_bytes' = FALSE
    /\ m_pc' = "read"
    /\ UNCHANGED <<dt_vars, ins_vars, ds_vars, conn, peer, inbox, write_half, fw_sent, new_vars,
                   listen_vars, pause_vars, hist_vars>>
    /\ UNCHANGED <<m_result, m_incoming, m_reply, m_lens, m_reqs_read, m_split>>

\* let _ = safe_socket.read(&mut incoming_buf), line 60: one or more of the
\* waiting messages, or nothing from a closed or broken connection.
MvRead ==
    /\ m_pc = "read"
    /\ \/ /\ conn = "open" /\ inbox # <<>>
          /\ \E k \in 1 .. Len(m_lens) :
               LET cnt == SumLens(m_lens, k)
                   got == SubSeq(inbox, 1, cnt)
                   reqs == Cardinality({ i \in 1 .. k : m_lens[i] = 1 /\ got[SumLens(m_lens, i)] = 3 })
               IN
               /\ cnt <= INCOMING_BUF_LEN
               /\ m_incoming' = got
               /\ inbox' = SubSeq(inbox, cnt + 1, Len(inbox))
               /\ m_lens' = SubSeq(m_lens, k + 1, Len(m_lens))
               /\ m_reqs_read' = m_reqs_read + reqs
               /\ m_split' = (m_split \/ k > 1)
       \/ /\ \/ conn = "reset"
             \/ conn = "open" /\ inbox = <<>> /\ peer = "closed"
          /\ m_incoming' = <<>>
          /\ UNCHANGED <<inbox, m_lens, m_reqs_read, m_split>>
    /\ m_pc' = "handle"
    /\ UNCHANGED <<dt_vars, ins_vars, ds_vars, conn, peer, write_half, log, fw_sent, new_vars,
                   listen_vars, pause_vars, hist_vars>>
    /\ UNCHANGED <<m_result, sent_move_bytes, m_reply>>

\* The three ifs on incoming_buf[0], lines 63-92.
MvHandle ==
    /\ m_pc = "handle"
    /\ LET b0 == Buf(m_incoming, 0) IN
       \/ /\ b0 = 3 /\ ~sent_move_bytes
          /\ log' = write_all(log, MoveTask, "whole", <<1>> \o binary)
          /\ sent_move_bytes' = TRUE
          /\ m_pc' = "read"
          /\ UNCHANGED m_result
       \/ /\ b0 = 3 /\ sent_move_bytes
          /\ log' = write_all(log, MoveTask, "whole", <<2>>)
          /\ m_result' = "Ok" /\ m_pc' = "done"
          /\ UNCHANGED sent_move_bytes
       \/ /\ b0 = 0
          /\ m_result' = "MachineInUse" /\ m_pc' = "done"
          /\ UNCHANGED <<log, sent_move_bytes>>
       \/ /\ b0 = 1
          /\ IF read_header(m_incoming).instruction_buffer_size < Len(binary)
             THEN m_result' = "InsBufferSmall" /\ m_pc' = "done"
             ELSE m_pc' = "read" /\ UNCHANGED m_result
          /\ UNCHANGED <<log, sent_move_bytes>>
       \/ /\ b0 \notin {0, 1, 3}
          /\ m_pc' = "read"
          /\ UNCHANGED <<log, m_result, sent_move_bytes>>
    /\ UNCHANGED <<dt_vars, ins_vars, ds_vars, conn, peer, inbox, write_half, fw_sent, new_vars,
                   listen_vars, pause_vars, hist_vars>>
    /\ UNCHANGED <<m_incoming, m_reply, m_lens, m_reqs_read, m_split>>

\* The firmware answers the greeting.
FwMvReply ==
    /\ conn = "open" /\ peer = "open" /\ m_reply = <<>>
    /\ \E reply \in GreetingReplies :
          /\ m_reply' = reply
          /\ inbox' = inbox \o reply
          /\ m_lens' = Append(m_lens, Len(reply))
    /\ UNCHANGED <<dt_vars, ins_vars, ds_vars, conn, peer, write_half, log, fw_sent, new_vars,
                   listen_vars, pause_vars, hist_vars>>
    /\ UNCHANGED <<m_pc, m_result, sent_move_bytes, m_incoming, m_reqs_read, m_split>>

\* The firmware, having sent its header, asks for instructions.
FwMvRequest ==
    /\ conn = "open" /\ peer = "open"
    /\ m_reply # <<>> /\ m_reply[1] = 1
    /\ fw_sent < MaxRequests
    /\ inbox' = Append(inbox, 3)
    /\ m_lens' = Append(m_lens, 1)
    /\ fw_sent' = fw_sent + 1
    /\ UNCHANGED <<dt_vars, ins_vars, ds_vars, conn, peer, write_half, log, new_vars,
                   listen_vars, pause_vars, hist_vars>>
    /\ UNCHANGED <<m_pc, m_result, sent_move_bytes, m_incoming, m_reply, m_reqs_read, m_split>>

\* move_to_start not called.
MvIdle ==
    /\ m_pc = "start" /\ m_result = "none" /\ sent_move_bytes = FALSE
    /\ m_incoming = <<>> /\ m_reply = <<>> /\ m_lens = <<>>
    /\ m_reqs_read = 0 /\ m_split = FALSE

\* ------------------------------------- client/mod.rs, the draw time

\* i16::abs: i16::MIN has no absolute value in i16; a debug build panics, a
\* release build wraps to i16::MIN.
abs_i16(v, bld) ==
    IF v # I16_MIN THEN [tag |-> "Ok", v |-> IF v < 0 THEN -v ELSE v]
    ELSE IF bld = "debug" THEN [tag |-> "panic", v |-> 0]
    ELSE [tag |-> "Ok", v |-> I16_MIN]

\* Ord::max on two i16
max_i16(a, b) == IF a >= b THEN a ELSE b

\* An f64 number of seconds, kept exactly: "fin" is n / max_motor_speed
\* seconds, the other kinds are the values a division by a zero speed gives.
Secs(n) == [kind |-> "fin", n |-> n]
NaN == [kind |-> "nan", n |-> 0]
PosInf == [kind |-> "inf", n |-> 0]
NegInf == [kind |-> "ninf", n |-> 0]

\* most_steps as f64 / max_motor_speed as f64, line 121
secs_of_steps(most_steps, max_motor_speed) ==
    IF max_motor_speed # 0 THEN Secs(most_steps)
    ELSE IF most_steps = 0 THEN NaN
    ELSE IF most_steps > 0 THEN PosInf ELSE NegInf

\* total_secs += term on f64
f64_add(a, b) ==
    IF a.kind = "nan" \/ b.kind = "nan" THEN NaN
    ELSE IF a.kind = "fin" /\ b.kind = "fin" THEN Secs(a.n + b.n)
    ELSE IF a.kind = "fin" THEN b
    ELSE IF b.kind = "fin" THEN a
    ELSE IF a.kind = b.kind THEN a ELSE NaN

\* Duration::from_secs_f64: panics on a negative, infinite or NaN argument.
from_secs_f64(t) ==
    IF t.kind = "fin" /\ t.n >= 0 THEN [tag |-> "Ok", secs |-> t.n]
    ELSE [tag |-> "panic", secs |-> 0]

\* The loop of calculate_draw_time, lines 114-137, entered with c_idx and
\* total_secs; totals keeps the values total_secs went through.
RECURSIVE draw_time_loop(_, _, _, _, _, _)
draw_time_loop(bytes, max_motor_speed, bld, c_idx, total_secs, totals) ==
    LET nxt == get_next_instruction_bounds(bytes, c_idx) IN
    IF nxt.tag = "panic"
    THEN [tag |-> "panic", secs |-> 0, totals |-> totals, at |-> c_idx]
    ELSE IF nxt.tag = "EndOfStream"
    THEN LET d == from_secs_f64(total_secs) IN
         [tag |-> d.tag, secs |-> d.secs, totals |-> totals, at |-> c_idx]
    ELSE IF nxt.tag # "Ok"
    THEN [tag |-> "Ok", secs |-> 0, totals |-> totals, at |-> c_idx]
    ELSE LET sb == nxt.sb
             left_steps == abs_i16(read_i16(At(bytes, sb), At(bytes, sb + 1)), bld)
             right_steps == abs_i16(read_i16(At(bytes, sb + 2), At(bytes, sb + 3)), bld)
         IN
         IF left_steps.tag = "panic" \/ right_steps.tag = "panic"
         THEN [tag |-> "panic", secs |-> 0, totals |-> totals, at |-> c_idx]
         ELSE LET most_steps == max_i16(left_steps.v, right_steps.v)
                  total == f64_add(total_secs, secs_of_steps(most_steps, max_motor_speed))
              IN  draw_time_loop(bytes, max_motor_speed, bld, nxt.eb + 1, total,
                                 Append(totals, total))

\* calculate_draw_time(bytes, max_motor_speed, _min_pulse_width)
calculate_draw_time(bytes, max_motor_speed, bld) ==
    draw_time_loop(bytes, max_motor_speed, bld, 0, Secs(0), << Secs(0) >>)

NoDtCall == [op |-> "none", tag |-> "none", secs |-> 0, totals |-> <<>>, at |-> 0]

\* A call of calculate_draw_time on the slice.
CalculateDrawTime ==
    /\ dt.op = "none"
    /\ LET res == calculate_draw_time(dt_bytes, dt_speed, build) IN
       dt' = [op |-> "calculate_draw_time", tag |-> res.tag, secs |-> res.secs,
              totals |-> res.totals, at |-> res.at]
    /\ UNCHANGED <<dt_bytes, dt_speed>>
    /\ UNCHANGED <<ins_vars, sess_vars, ds_vars, mv_vars>>

\* calculate_draw_time not called.
DtIdle ==
    /\ dt_bytes = <<>> /\ dt_speed = 0 /\ dt = NoDtCall

\* ------------------------------------------------------ the session

SessInit ==
    /\ conn = "none" /\ peer = "open" /\ inbox = <<>> /\ write_half = "open"
    /\ log = <<>> /\ fw_sent = 0
    /\ n_pc = "start" /\ new_result = "none" /\ inc_buffer = <<>> /\ header = NoHeader
    /\ lpc = "idle" /\ incoming_buf = <<>> /\ buf_idx = 0
    /\ idx_lock = Free /\ write_lock = Free /\ lb_ub = <<0, 0>>
    /\ ppc = [p \in Pausers |-> "idle"] /\ pflag = [p \in Pausers |-> FALSE]
    /\ pio = [p \in Pausers |-> [calls |-> 0, io |-> "none", ret |-> "none"]]
    /\ read_gt1 = FALSE /\ closed_at = -1

\* The instruction sets the sessions of the model draw: three instructions
\* (5 + 6 + 5 bytes), which get_buffer_bounds cuts into one, two or three
\* chunks depending on the size it is first called with.
SessionInputs ==
    { <<0, 1, 0, 2, 12, 0, 3, 255, 254, 10, 12, 4, 1, 2, 1, 12>> }

\* The InstructionSet of a session exists: InstructionSet::new returned Ok.
Init ==
    /\ ins_bytes \in { b \in SessionInputs : is_stream_valid(b).tag = "None" }
    /\ ins_new = "Ok"
    /\ binary = ins_bytes
    /\ buffer_bound_cache = EmptyCache
    /\ call = NoCall
    /\ ncalls = 0
    /\ SessInit
    /\ DsIdle
    /\ MvIdle
    /\ DtIdle

\* The chunk sizes asked for before the session starts.
SessionChunkSizes == { MIN_CHUNK, MaxChunkSize }

Next ==
    \/ (n_pc = "start" /\ ncalls = 0 /\ \E k \in SessionChunkSizes : GetBufferBounds(k))
    \/ (n_pc = "start" /\ ncalls = 0 /\ ParseToNumericalSteps)
    \/ NewConnect
    \/ NewGreet
    \/ NewRead
    \/ FwRequest
    \/ FwClose
    \/ ConnReset
    \/ ListenNext
    \/ \E p \in Pausers : PauseAcquire(p)
    \/ \E p \in Pausers : PauseWrite(p)
    \/ \E p \in Pausers : PauseRelease(p)

Spec == Init /\ [][Next]_vars

\* The listener task runs whenever it can take a step.
FairSpec == Spec /\ WF_vars(ListenNext)

\* ClientState::new has returned Ok: the greeting is out and the firmware
\* answered with a header whose buffer holds the stream.
LockInit ==
    /\ ins_bytes \in { b \in SessionInputs : is_stream_valid(b).tag = "None" }
    /\ ins_new = "Ok"
    /\ binary = ins_bytes
    /\ buffer_bound_cache = EmptyCache
    /\ call = NoCall
    /\ ncalls = 0
    /\ DsIdle /\ MvIdle /\ DtIdle
    /\ conn = "open" /\ peer = "open" /\ inbox = <<>> /\ write_half = "open"
    /\ log = << Wrote(NewTask, "whole", <<0, 1>>) >> /\ fw_sent = 0
    /\ n_pc = "done" /\ new_result = greeting_result(1)
    /\ inc_buffer = HeaderReply(512) /\ header = read_header(inc_buffer)
    /\ lpc = "idle" /\ incoming_buf = <<>> /\ buf_idx = 0
    /\ idx_lock = Free /\ write_lock = Free /\ lb_ub = <<0, 0>>
    /\ ppc = [p \in Pausers |-> "idle"] /\ pflag = [p \in Pausers |-> FALSE]
    /\ pio = [p \in Pausers |-> [calls |-> 0, io |-> "none", ret |-> "none"]]
    /\ read_gt1 = FALSE /\ closed_at = -1

\* A session whose socket keeps working: the connection is not reset and the
\* firmware does not close it.  The caller may have asked for the bounds in
\* small chunks before it starts listen.
LockNext ==
    \/ (lpc = "idle" /\ ncalls = 0 /\ GetBufferBounds(MIN_CHUNK))
    \/ FwRequest
    \/ ListenNext
    \/ \E p \in Pausers : PauseAcquire(p)
    \/ \E p \in Pausers : PauseWrite(p)
    \/ \E p \in Pausers : PauseRelease(p)

\* The listener task and the pause callers are scheduled, their writes
\* complete, and the write mutex serves its waiters in turn (tokio's Mutex is
\* fair): a caller of lock().await gets the lock if it is free again and again.
FairLockSpec ==
    /\ LockInit /\ [][LockNext]_vars
    /\ WF_vars(ListenNext)
    /\ \A p \in Pausers :
          /\ SF_vars(PauseAcquire(p))
          /\ WF_vars(PauseWrite(p))
          /\ WF_vars(PauseRelease(p))

\* -------------------------------------------------- claims on Spec

IsPrefix(a, b) == Len(a) <= Len(b) /\ a = SubSeq(b, 1, Len(a))

\* The write_all calls that reached the socket, in order.
Wire == SelectSeq(log, LAMBDA e : e.kind = "write")

\* The bytes of those that listen made.
ListenWrites ==
    LET w == SelectSeq(log, LAMBDA e : e.kind = "write" /\ e.by = Listener)
    IN  [i \in 1 .. Len(w) |-> w[i].bytes]

\* The chunks of the session: what get_buffer_bounds answers listen.
ListenBounds == get_buffer_bounds(binary, buffer_bound_cache, LISTEN_CHUNK).bounds

\* The 0x03 requests the host has read.
RequestsRead == fw_sent - Len(inbox)

\* What listen has to have written once it answered k requests: 0x01 and
\* chunk j - 1 for the j-th, 0x02 for the one after the last chunk.
RECURSIVE Answers(_, _)
Answers(bounds, k) ==
    IF k = 0 THEN <<>>
    ELSE IF k <= Len(bounds)
         THEN Answers(bounds, k - 1)
              \o << <<1>>, Slice(binary, bounds[k][1], bounds[k][2]) >>
         ELSE Answers(bounds, Len(bounds)) \o << <<2>> >>

\* Listen has answered the first k requests and no other: what it wrote is
\* the answers to them and it has returned, with the write half shut down,
\* exactly if the request after the last chunk was among them.
AnsweredUpTo(k) ==
    LET N == Len(ListenBounds) IN
    /\ ListenWrites = Answers(ListenBounds, k)
    /\ k <= N => lpc = "read" /\ write_half = "open"
    /\ k > N => lpc = "returned" /\ write_half = "shutdown"

Min(a, b) == IF a <= b THEN a ELSE b

\* C1: with the chunk index starting at 0 and N chunks, the k-th 0x03 request
\* from the firmware is answered with 0x01 and exactly the bytes of chunk k-1,
\* in order, none skipped or repeated; the (N+1)-th is answered with 0x02, the
\* write side is shut down and listen returns.  Looked at whenever listen is
\* done with what it read (it waits in read, or has returned) on a working
\* connection: the requests that reached the host are answered, up to N+1.
C1_ChunksInOrderThenFinish ==
    (conn = "open" /\ lpc \in {"read", "returned"})
        => AnsweredUpTo(Min(RequestsRead, Len(ListenBounds) + 1))

\* What holds of listen whatever the reads: what it wrote is a prefix of the
\* answers in order, and when every read so far brought one request, the
\* requests that reached the host are all answered.
ListenAnswersInOrder ==
    /\ IsPrefix(ListenWrites, Answers(ListenBounds, Len(ListenBounds) + 1))
    /\ (conn = "open" /\ ~read_gt1 /\ lpc \in {"read", "returned"})
          => /\ RequestsRead <= Len(ListenBounds) + 1
             /\ AnsweredUpTo(RequestsRead)

\* C2: every chunk message the host sends carries at most
\* instruction_buffer_size instruction bytes, the value the firmware reported
\* in the greeting header of the session.
C2_ChunkFitsReportedBuffer ==
    \A i \in DOMAIN log :
        (log[i].kind = "write" /\ log[i].part = "body")
            => Len(log[i].bytes) <= header.instruction_buffer_size

\* C3: with listen running and pause callers that take the write half through
\* the shared mutex, what reaches the socket is a concatenation of whole
\* messages: 0x01 followed by one complete chunk, [0x04, 0x01], [0x04, 0x00] or
\* 0x02 (after the greeting); the only incomplete message is a last 0x01
\* whose chunk listen, holding the mutex, is about to write or could not write.
C3_MessagesNotInterleaved ==
    LET wire == Wire
        chunks == { Slice(binary, ListenBounds[j][1], ListenBounds[j][2]) :
                      j \in DOMAIN ListenBounds }
    IN
    \A i \in DOMAIN wire :
        LET e == wire[i] IN
        /\ e.part = "whole" =>
              \/ e.by = NewTask /\ e.bytes = <<0, 1>> /\ i = 1
              \/ e.by = Listener /\ e.bytes = <<2>>
              \/ e.by \in Pausers /\ e.bytes \in { <<4, 1>>, <<4, 0>> }
        /\ e.part = "opcode" =>
              /\ e.by = Listener /\ e.bytes = <<1>>
              /\ IF i < Len(wire)
                 THEN wire[i + 1].by = Listener /\ wire[i + 1].part = "body"
                 ELSE \/ lpc = "chunk_body" /\ write_lock = Listener
                      \/ conn = "reset"
        /\ e.part = "body" =>
              /\ i > 1 /\ wire[i - 1].part = "opcode"
              /\ e.bytes \in chunks

\* C3's case: a pause message went out between two chunk messages of listen.
C3_Witness ==
    \E i \in DOMAIN Wire :
        /\ i + 3 <= Len(Wire)
        /\ Wire[i].part = "body"
        /\ Wire[i + 1].by \in Pausers
        /\ Wire[i + 2].part = "opcode"
        /\ Wire[i + 3].part = "body"

\* C4: when a drawing completes (the host answers the request after the last
\* chunk with 0x02), a drawing_finished progress event is emitted exactly once
\* for that session.
C4_DrawingFinishedOnce ==
    lpc = "returned"
        => Cardinality({ i \in DOMAIN log :
                           log[i].kind = "emit" /\ log[i].ev = "drawing_finished" }) = 1

\* C5: if, while listen is running, a read returns zero bytes or fails, listen
\* eventually returns, and it does so without sending further bytes and
\* without a drawing_finished event.
C5_ListenReturnsOnClose ==
    /\ (closed_at # -1) ~> (lpc = "returned")
    /\ [](closed_at # -1 =>
            \A i \in DOMAIN log :
                i > closed_at => log[i].by # Listener /\ log[i].ev # "drawing_finished")

\* C6: ClientState::new fails with InsBufferSmall carrying the reported size
\* whenever the greeting header reports instruction_buffer_size < 1024, and
\* returns a usable session only when the reported size is at least 1024.
C6_SmallBufferRefused ==
    (n_pc = "done" /\ Buf(inc_buffer, 0) = 1)
        => IF read_header(inc_buffer).instruction_buffer_size < 1024
           THEN new_result = "InsBufferSmall"
           ELSE new_result = "Ok"

\* C7: if the first byte of the firmware's reply to the greeting is 0x00,
\* ClientState::new fails with MachineInUse and the host writes no byte on
\* that connection after the two greeting bytes 0x00 0x01.
C7_BusyMachineRefused ==
    (n_pc = "done" /\ inc_buffer # <<>> /\ Buf(inc_buffer, 0) = 0)
        => /\ new_result = "MachineInUse"
           /\ [i \in 1 .. Len(Wire) |-> Wire[i].bytes] = << <<0, 1>> >>
           /\ lpc = "idle"
           /\ \A p \in Pausers : ppc[p] = "idle"

\* C7's case: the firmware answered the greeting with 0x00 and new returned.
C7_Witness ==
    /\ n_pc = "done"
    /\ inc_buffer = <<0>>
    /\ new_result = "MachineInUse"
    /\ Len(Wire) = 1

\* C22: when the write of the pause or resume message fails with an I/O
\* error, pause reports that error to its caller, and it does not write again.
C22_PauseReportsWriteError ==
    \A p \in Pausers :
        /\ pio[p].calls <= 1
        /\ pio[p].io = "Err" => pio[p].ret = "Err"

\* What holds of a pause whose write failed: one write_all call, nothing on
\* the wire from it, the unit value returned and the event emitted all the same.
PauseFailsSilently ==
    \A p \in Pausers :
        /\ pio[p].calls <= 1
        /\ pio[p].io = "Err" =>
              /\ pio[p].ret = "unit"
              /\ \A i \in 1 .. Len(log) : ~(log[i].kind = "write" /\ log[i].by = p)
              /\ \E i \in 1 .. Len(log) : log[i].kind = "emit" /\ log[i].by = p

\* The positions in the log of listen's progress events and of the chunk
\* bodies it wrote, in order.
ListenEmitsAt ==
    SelectSeq([i \in 1 .. Len(log) |-> i],
              LAMBDA i : log[i].kind = "emit" /\ log[i].by = Listener)
ListenBodiesAt ==
    SelectSeq([i \in 1 .. Len(log) |-> i],
              LAMBDA i : log[i].kind = "write" /\ log[i].by = Listener
                         /\ log[i].part = "body")

\* C23: for every chunk sent by listen exactly one 'drawing' progress event is
\* emitted, and it is emitted after that chunk's bytes have been written to
\* the socket; no progress event is emitted for the final 0x02.
C23_ProgressAfterChunkWritten ==
    /\ Len(ListenEmitsAt) <= Len(ListenBodiesAt)
    /\ \A k \in 1 .. Len(ListenEmitsAt) :
          /\ log[ListenEmitsAt[k]].k = k
          /\ ListenBodiesAt[k] < ListenEmitsAt[k]
    /\ lpc = "read" => Len(ListenEmitsAt) = Len(ListenBodiesAt)

\* What holds of the progress events: the k-th event carries k and the number
\* of chunks, it comes before the k-th chunk's opcode and body, there is one
\* per request that asked for a chunk, and none comes with the final 0x02.
ProgressBeforeChunkWritten ==
    /\ Len(ListenBodiesAt) <= Len(ListenEmitsAt)
    /\ \A k \in 1 .. Len(ListenEmitsAt) :
          /\ log[ListenEmitsAt[k]].k = k
          /\ log[ListenEmitsAt[k]].n = Len(ListenBounds)
          /\ k <= Len(ListenBounds)
    /\ \A k \in 1 .. Len(ListenBodiesAt) : ListenEmitsAt[k] < ListenBodiesAt[k]
    /\ (lpc = "read" /\ conn = "open") => Len(ListenEmitsAt) = Len(ListenBodiesAt)

\* C25: each host-to-firmware message that has a payload (a chunk message
\* 0x01 + chunk body in listen and in move_to_start, a pause message
\* 0x04 + flag in pause) is handed to the socket by one single write call
\* containing the opcode and its payload together.
C25_PayloadInOneWrite ==
    \A i \in 1 .. Len(log) :
        (log[i].kind = "write" /\ log[i].bytes[1] \in {1, 4} /\ log[i].by # NewTask) =>
            /\ log[i].part = "whole"
            /\ Len(log[i].bytes) >= 2

\* What holds of the writes with a payload: pause and move_to_start hand over
\* opcode and payload in one call; listen hands over the opcode alone.
PayloadInOneWriteButListen ==
    \A i \in 1 .. Len(log) :
        log[i].kind = "write" =>
            /\ log[i].by \in Pausers =>
                  log[i].part = "whole" /\ log[i].bytes \in { <<4, 0>>, <<4, 1>> }
            /\ (log[i].by = MoveTask /\ log[i].bytes[1] = 1) =>
                  log[i].part = "whole" /\ log[i].bytes = <<1>> \o binary
            /\ (log[i].by = Listener /\ log[i].part = "opcode") => log[i].bytes = <<1>>

\* The messages listen has handed over in full: chunk bodies and 0x02.
ListenMessageCount ==
    Len(SelectSeq(log, LAMBDA e : e.kind = "write" /\ e.by = Listener
                                   /\ e.part \in {"body", "whole"}))

\* C27: every 0x03 request byte the firmware sends while listen is running
\* is answered by exactly one host message (the next chunk or the final
\* 0x02), also when two request bytes are delivered to the host by the same
\* socket read.  Counted when listen waits in read on a working connection:
\* as many messages are out as request bytes were delivered, never more.
C27_EveryRequestAnswered ==
    /\ ListenMessageCount <= RequestsRead
    /\ (conn = "open" /\ lpc = "read") => ListenMessageCount = RequestsRead

\* What holds of the count: never more messages than requests delivered, and
\* as many when no read brought more than one byte.
OneAnswerPerSingleRead ==
    /\ ListenMessageCount <= RequestsRead
    /\ (conn = "open" /\ lpc = "read" /\ ~read_gt1) => ListenMessageCount = RequestsRead

\* Who holds which lock where: listen holds the chunk-index lock only on the
\* completion path, holds the write lock only around its writes, holds no
\* lock while it reads, waits for the chunk-index lock or is gone, and never
\* waits for the chunk-index lock with the write lock in hand; a pause caller
\* holds the write lock only around its write.
LockDiscipline ==
    /\ idx_lock \in {Free, Listener}
    /\ idx_lock = Listener <=> lpc \in {"fin_lock", "fin_write", "fin_shutdown"}
    /\ write_lock = Listener <=>
          lpc \in {"fin_write", "fin_shutdown", "chunk_opcode", "chunk_body"}
    /\ \A p \in Pausers : write_lock = p <=> ppc[p] \in {"locked", "written"}

\* C28: listen and the pause callers cannot deadlock: listen takes the
\* chunk-index lock before the write lock, never waits for the chunk-index
\* lock while holding the write lock and releases every lock it took on each
\* path, so a pause caller waiting for the write lock eventually obtains it,
\* provided socket writes complete.
C28_PauseGetsWriteLock ==
    /\ [] LockDiscipline
    /\ \A p \in Pausers : (new_result = "Ok" /\ ppc[p] = "idle") ~> (ppc[p] = "locked")

\* C28's case: a pause caller holds the write lock after listen has held it
\* for a chunk, and listen waits for it with the next chunk.
C28_Witness ==
    /\ \E p \in Pausers : ppc[p] = "locked" /\ write_lock = p
    /\ lpc = "chunk_lock"
    /\ ListenMessageCount >= 1

\* ------------------------------------------------- preview/mod.rs

\* generate_preview, lines 31-36: belts at the initial point, then
\* belts.move_by_steps(*ld, -rd) for each decoded instruction.
RECURSIVE replay_steps(_, _, _, _)
replay_steps(belts, steps, i, bld) ==
    IF i > Len(steps) THEN [tag |-> "Ok", belts |-> belts]
    ELSE LET neg_rd == neg_i16(steps[i][2], bld) IN
         IF neg_rd.tag = "panic" THEN [tag |-> "panic", belts |-> belts]
         ELSE replay_steps(move_by_steps(belts, steps[i][1], neg_rd.v), steps, i + 1, bld)

\* The belts of the preview after the instructions of bytes, started at init.
preview_belts(init, bytes, bld) ==
    LET ins_set == InstructionSet_new(bytes)
        parsed == parse_to_numerical_steps(ins_set.binary, EmptyCache)
    IN  IF ins_set.tag # "Ok" THEN [tag |-> ins_set.tag, belts |-> <<0, 0>>]
        ELSE IF parsed.tag # "Ok" THEN [tag |-> parsed.tag, belts |-> <<0, 0>>]
        ELSE replay_steps(cartesian_to_belt(init), parsed.steps, 1, bld)

\* ------------------------------------------ a DrawSurface on its own

DrawInit ==
    /\ ins_bytes = <<>> /\ ins_new = "uncalled" /\ binary = <<>>
    /\ buffer_bound_cache = EmptyCache /\ call = NoCall /\ ncalls = 0
    /\ SessInit
    /\ MvIdle
    /\ DtIdle
    /\ ds = DrawSurface_new /\ ds_last = NoDsCall /\ ds_undo = <<>>
    /\ ds_emitted = 0 /\ ds_popped = 0
    /\ build \in {"debug", "release"}

DrawNext ==
    \/ \E pt \in SamplePoints : SampleXY(pt)
    \/ PopSample

SpecDraw == DrawInit /\ [][DrawNext]_vars

\* ----------------------------------------------- move_to_start alone

MoveInit ==
    /\ ins_bytes = <<>> /\ ins_new = "uncalled" /\ binary = <<>>
    /\ buffer_bound_cache = EmptyCache /\ call = NoCall /\ ncalls = 0
    /\ SessInit
    /\ DsIdle
    /\ MvIdle
    /\ DtIdle

MoveNext ==
    \/ MvBegin
    \/ MvGreet
    \/ MvRead
    \/ MvHandle
    \/ FwMvReply
    \/ FwMvRequest
    \/ FwClose
    \/ ConnReset

SpecMove == MoveInit /\ [][MoveNext]_vars

\* --------------------------------------- calculate_draw_time alone

\* The blocks of the slices: those of Pieces, an instruction whose two step
\* fields are both -32768 and one whose steps are (3, -5).
TimePieces == Pieces \cup { <<128, 0, 128, 0, 12>>, <<0, 3, 255, 251, 12>> }

TimeStreams ==
    { Flatten(ps) : ps \in UNION { [1 .. n -> TimePieces] : n \in 0 .. MaxTimePieces } }

\* max_motor_speed as the header of the firmware reports it (a u32).
MotorSpeeds == {0, 1000}

TimeInit ==
    /\ ins_bytes = <<>> /\ ins_new = "uncalled" /\ binary = <<>>
    /\ buffer_bound_cache = EmptyCache /\ call = NoCall /\ ncalls = 0
    /\ SessInit
    /\ MvIdle
    /\ ds = DrawSurface_new /\ ds_last = NoDsCall /\ ds_undo = <<>>
    /\ ds_emitted = 0 /\ ds_popped = 0
    /\ build \in {"debug", "release"}
    /\ dt_bytes \in TimeStreams
    /\ dt_speed \in MotorSpeeds
    /\ dt = NoDtCall

TimeNext == CalculateDrawTime

SpecTime == TimeInit /\ [][TimeNext]_vars

\* ------------------------------------------------ read_header alone

\* The buffers read_header is applied to: a first byte, the two bytes of the
\* protocol version, four reserved bytes and three u32 fields, each drawn from
\* a few byte patterns (values up to 2^31 - 1); the rest of the buffer is zero.
VersionBytes == { <<0, 1>>, <<1, 0>>, <<2, 3>>, <<255, 255>> }
ReservedBytes == { <<0, 0, 0, 0>>, <<9, 8, 7, 6>>, <<255, 255, 255, 255>> }
FieldBytes == { <<0, 0, 2, 0>>, <<1, 2, 3, 4>>, <<127, 255, 255, 126>> }
HeaderInputs ==
    { <<b0>> \o v \o rsv \o size \o speed \o width :
        b0 \in {1, 3}, v \in VersionBytes, rsv \in ReservedBytes,
        size \in FieldBytes, speed \in FieldBytes, width \in FieldBytes }

\* ClientState::new has read the reply into inc_buffer and is at line 60.
HdrInit ==
    /\ ins_bytes = <<>> /\ ins_new = "uncalled" /\ binary = <<>>
    /\ buffer_bound_cache = EmptyCache /\ call = NoCall /\ ncalls = 0
    /\ DsIdle /\ MvIdle /\ DtIdle
    /\ conn = "open" /\ peer = "open" /\ inbox = <<>> /\ write_half = "open"
    /\ log = << Wrote(NewTask, "whole", <<0, 1>>) >> /\ fw_sent = 0
    /\ n_pc = "decode" /\ new_result = "none"
    /\ inc_buffer \in HeaderInputs
    /\ header = NoHeader
    /\ lpc = "idle" /\ incoming_buf = <<>> /\ buf_idx = 0
    /\ idx_lock = Free /\ write_lock = Free /\ lb_ub = <<0, 0>>
    /\ ppc = [p \in Pausers |-> "idle"] /\ pflag = [p \in Pausers |-> FALSE]
    /\ pio = [p \in Pausers |-> [calls |-> 0, io |-> "none", ret |-> "none"]]
    /\ read_gt1 = FALSE /\ closed_at = -1

\* let (..) = read_header(&inc_buffer), line 60
ReadHeader ==
    /\ n_pc = "decode"
    /\ header' = read_header(inc_buffer)
    /\ n_pc' = "decoded"
    /\ UNCHANGED <<new_result, inc_buffer>>
    /\ UNCHANGED <<ds_vars, mv_vars, dt_vars, ins_vars, conn_vars, listen_vars, pause_vars, hist_vars>>

HdrNext == ReadHeader

SpecHdr == HdrInit /\ [][HdrNext]_vars

\* ------------------------------------- the InstructionSet on its own

\* An InstructionSet built from any of the input vectors and called through
\* its API, with no session.
InsInit ==
    /\ ins_bytes \in InputStreams
    /\ ins_new = "uncalled"
    /\ binary = <<>>
    /\ buffer_bound_cache = EmptyCache
    /\ call = NoCall
    /\ ncalls = 0
    /\ SessInit
    /\ DsIdle
    /\ MvIdle
    /\ DtIdle

\* The start_idx arguments tried on an input vector: into the first two
\* blocks, the last byte, the length and one past it.
StartIdxs(bytes) == {0, 1, 5, 6, 11} \cup { n \in Len(bytes) - 1 .. Len(bytes) + 1 : n >= 0 }

InsNext ==
    \/ InsNew
    \/ \E start_idx \in StartIdxs(ins_bytes) : InsNewFromIdx(start_idx)
    \/ \E k \in ChunkSizes : GetBufferBounds(k)
    \/ ParseToNumericalSteps

SpecIns == InsInit /\ [][InsNext]_vars

\* ------------------------------------------------ claims on SpecIns

\* The instruction grammar (left:i16 right:i16 [pen_op] 0x0C), read off the
\* bytes independently of the chunker: the offset of the terminator of the
\* complete instruction that starts at s, or -1 when none starts there.
InsEndAt(bin, s) ==
    IF s + 4 < Len(bin) /\ At(bin, s + 4) = EOI THEN s + 4
    ELSE IF s + 5 < Len(bin) /\ At(bin, s + 4) \in {PEN_UP, PEN_DOWN}
            /\ At(bin, s + 5) = EOI THEN s + 5
    ELSE -1

\* The offsets at which the instructions of bin start, walking from s.
RECURSIVE InsStarts(_, _)
InsStarts(bin, s) ==
    IF InsEndAt(bin, s) = -1 THEN {}
    ELSE {s} \cup InsStarts(bin, InsEndAt(bin, s) + 1)

\* bounds partitions bin: starts at byte 0, each chunk starts one past the
\* previous chunk's end, the last chunk ends at the final byte.
Covers(bin, bounds) ==
    /\ Len(bounds) >= 1
    /\ bounds[1][1] = 0
    /\ \A i \in 1 .. Len(bounds) - 1 : bounds[i + 1][1] = bounds[i][2] + 1
    /\ bounds[Len(bounds)][2] = Len(bin) - 1

\* C8: for every InstructionSet (every vector InstructionSet::new accepted) and
\* every max_chunk_size >= 8, the pairs get_buffer_bounds returns cover the
\* whole stream: first chunk from byte 0, each next chunk from the previous end
\* + 1, last chunk ending at the final byte of the stream.
C8_BoundsCoverStream ==
    (call.op = "get_buffer_bounds" /\ call.k >= MIN_CHUNK)
        => (call.tag = "Ok" /\ Covers(binary, call.bounds))

\* C9: for every InstructionSet and every max_chunk_size >= 8, on the first
\* get_buffer_bounds call each chunk (start, end) has end - start + 1 <=
\* max_chunk_size, starts at the first byte of an instruction and ends at the
\* 0x0C terminator of a complete instruction.
C9_ChunksAreWholeInstructions ==
    (call.op = "get_buffer_bounds" /\ call.k >= MIN_CHUNK /\ call.fresh)
        => /\ call.tag = "Ok"
           /\ \A i \in 1 .. Len(call.bounds) :
                LET start == call.bounds[i][1]
                    end == call.bounds[i][2]
                IN  /\ end - start + 1 <= call.k
                    /\ start \in InsStarts(binary, 0)
                    /\ \E s \in InsStarts(binary, 0) : end = InsEndAt(binary, s)

\* C10: get_buffer_bounds(max_chunk_size) fails with BufferTooSmall whenever
\* max_chunk_size < 8, on every InstructionSet and after any sequence of
\* earlier get_buffer_bounds or parse_to_numerical_steps calls on it.
C10_SmallSizeAlwaysFails ==
    (call.op = "get_buffer_bounds" /\ call.k < MIN_CHUNK)
        => call.tag = "BufferTooSmall"

\* C11: the chunk bounds are memoised per max_chunk_size: whatever was called
\* before on the same InstructionSet, get_buffer_bounds(k) with k >= 8 returns
\* the chunking for its own k, the one a fresh InstructionSet over the same
\* bytes returns for that k.
C11_MemoisedPerSize ==
    (call.op = "get_buffer_bounds" /\ call.k >= MIN_CHUNK)
        => LET fresh == get_buffer_bounds(binary, EmptyCache, call.k) IN
           call.tag = fresh.tag /\ call.bounds = fresh.bounds

\* The grammar, read off the bytes: bin from offset s on is a concatenation
\* of zero or more complete instructions.
RECURSIVE InstructionsFrom(_, _)
InstructionsFrom(bin, s) ==
    IF s = Len(bin) THEN TRUE
    ELSE IF InsEndAt(bin, s) = -1 THEN FALSE
    ELSE InstructionsFrom(bin, InsEndAt(bin, s) + 1)

\* bin is a concatenation of one or more well-formed instructions.
WellFormed(bin) == bin # <<>> /\ InstructionsFrom(bin, 0)

\* C12: InstructionSet::new returns Ok for every byte vector that is a
\* concatenation of one or more well-formed instructions (four step bytes of
\* any value, an optional pen op, the terminator), and the stored binary
\* equals the input bytes unchanged.
C12_WellFormedAccepted ==
    (call.op = "new" /\ WellFormed(ins_bytes))
        => ins_new = "Ok" /\ binary = ins_bytes

\* C12's case: new was called on three instructions, one with each pen op and
\* one whose step bytes are opcode values.
C12_Witness ==
    /\ call.op = "new"
    /\ ins_bytes = <<0, 3, 255, 254, 10, 12, 128, 0, 0, 4, 11, 12, 12, 10, 11, 12, 12>>
    /\ ins_new = "Ok"
    /\ binary = ins_bytes

\* C13: InstructionSet::new returns an error value for every byte vector that
\* is not a concatenation of complete instructions: EmptyInstructionSet for
\* the empty vector, IncompleteInstructions for a wrong terminator or a
\* trailing partial instruction; it never accepts such a stream and never
\* aborts.
C13_MalformedRejected ==
    (call.op = "new" /\ ~WellFormed(ins_bytes))
        => ins_new = IF ins_bytes = <<>> THEN "EmptyInstructionSet"
                     ELSE "IncompleteInstructions"

\* The triples of the instructions of bin from offset s on, read off the
\* bytes with the pen latch: up until the first pen op, up from 0x0A, down
\* from 0x0B.
RECURSIVE StepsFrom(_, _, _)
StepsFrom(bin, s, pen_up) ==
    IF InsEndAt(bin, s) = -1 THEN <<>>
    ELSE LET latch == IF InsEndAt(bin, s) = s + 4 THEN pen_up
                      ELSE At(bin, s + 4) = PEN_UP
         IN  << <<read_i16(At(bin, s), At(bin, s + 1)),
                  read_i16(At(bin, s + 2), At(bin, s + 3)), latch>> >>
             \o StepsFrom(bin, InsEndAt(bin, s) + 1, latch)

\* C14: parse_to_numerical_steps returns exactly one (left, right, pen_up)
\* triple per instruction, in stream order, left and right the big-endian
\* i16 of the first four bytes, pen_up latched across the whole stream,
\* whatever chunk size the bounds cache was built with.
C14_OneTriplePerInstruction ==
    call.op = "parse_to_numerical_steps"
        => call.tag = "Ok" /\ call.steps = StepsFrom(binary, 0, TRUE)

\* What parse_to_numerical_steps does on the well-formed streams: there the
\* triples are the ones of C14, whatever was called before.
ParseOfWellFormed ==
    (call.op = "parse_to_numerical_steps" /\ WellFormed(binary))
        => call.tag = "Ok" /\ call.steps = StepsFrom(binary, 0, TRUE)

\* C20: new_from_idx(bytes, x, y, start) with start < len(bytes) has the
\* outcome of new(bytes[start..], x, y): the same Result, and the suffix alone
\* stored, so that chunk bounds are offsets into the suffix; with start >=
\* len(bytes), the empty vector included, it returns StartOutOfBounds.
C20_FromIdxIsNewOfSuffix ==
    /\ call.op = "new_from_idx" =>
          IF call.k < Len(ins_bytes)
          THEN LET of_suffix == InstructionSet_new(Suffix(ins_bytes, call.k)) IN
               /\ ins_new = of_suffix.tag
               /\ binary = of_suffix.binary
          ELSE ins_new = "StartOutOfBounds"
    /\ (call.op = "get_buffer_bounds" /\ call.tag = "Ok") =>
          \A i \in DOMAIN call.bounds :
              call.bounds[i][1] <= call.bounds[i][2] /\ call.bounds[i][2] < Len(binary)

\* C20's cases: a start inside the vector that leaves a valid suffix shorter
\* than the vector, and a start at the length of a non-empty vector.
C20_Witness ==
    /\ call.op = "new_from_idx"
    /\ \/ call.k > 0 /\ call.k < Len(ins_bytes) /\ ins_new = "Ok"
          /\ Len(binary) = Len(ins_bytes) - call.k
       \/ call.k = Len(ins_bytes) /\ call.k > 0 /\ ins_new = "StartOutOfBounds"

\* C21: validation is closed under concatenation: when InstructionSet::new
\* accepts A and accepts B, it accepts A ++ B.  Read on the vector handed to
\* new, over every way of cutting it into an A and a B.
C21_ConcatenationAccepted ==
    call.op = "new" =>
        \A cut \in 1 .. Len(ins_bytes) - 1 :
            (/\ InstructionSet_new(SubSeq(ins_bytes, 1, cut)).tag = "Ok"
             /\ InstructionSet_new(Suffix(ins_bytes, cut)).tag = "Ok")
                => ins_new = "Ok"

\* What holds of concatenation: two well-formed vectors give an accepted one.
ConcatenationOfWellFormed ==
    call.op = "new" =>
        \A cut \in 1 .. Len(ins_bytes) - 1 :
            (WellFormed(SubSeq(ins_bytes, 1, cut)) /\ WellFormed(Suffix(ins_bytes, cut)))
                => ins_new = "Ok" /\ binary = ins_bytes

\* ----------------------------------------------- claims on SpecDraw

Abs(n) == IF n < 0 THEN -n ELSE n

\* The deltas of the last sample_xy call, in half steps, as the call saw them.
LastDeltaLeft == ds_last.pt[1].l - ds_last.pre.belts[1]
LastDeltaRight == ds_last.pt[1].r - ds_last.pre.belts[2]

\* C15: on a new DrawSurface the first sample_xy records the first sample,
\* initialises the belts and appends no bytes; every later successful
\* sample_xy appends exactly one 5-byte instruction ending in 0x0C and changes
\* no earlier byte; so after any sequence of calls current_ins holds exactly
\* (successful sample_xy calls after the first) minus (successful pop_sample
\* calls) complete instructions.  Looked at after calls that returned.
C15_OneInstructionPerSample ==
    ds_last.tag # "panic" =>
        /\ Len(ds.current_ins) = 5 * (ds_emitted - ds_popped)
        /\ \A i \in 1 .. ds_emitted - ds_popped : ds.current_ins[5 * i] = EOI
        /\ (ds_last.op = "sample_xy" /\ ds_last.tag = "Ok") =>
              IF ds_last.pre.first_sample = <<>>
              THEN /\ ds.first_sample = ds_last.pt
                   /\ ds.belts = cartesian_to_belt(ds_last.pt[1])
                   /\ ds.current_ins = <<>>
              ELSE /\ Len(ds.current_ins) = Len(ds_last.pre.current_ins) + 5
                   /\ SubSeq(ds.current_ins, 1, Len(ds_last.pre.current_ins))
                        = ds_last.pre.current_ins
                   /\ ds.current_ins[Len(ds.current_ins)] = EOI
                   /\ ds.first_sample = ds_last.pre.first_sample

\* C15's case: a first sample, two samples that emitted, and a pop.
C15_Witness ==
    /\ ds_emitted = 2 /\ ds_popped = 1
    /\ ds_last.op = "pop_sample" /\ ds_last.tag = "Ok"
    /\ Len(ds.current_ins) = 5

\* C16: a sample_xy call, not the first, whose left or right delta-step count
\* has magnitude greater than i16::MAX returns the overflow error and leaves
\* current_ins, the belt lengths and first_sample as they were.
C16_OverflowRefused ==
    (/\ ds_last.op = "sample_xy"
     /\ ds_last.pre.first_sample # <<>>
     /\ \/ Abs(LastDeltaLeft) > 2 * I16_MAX
        \/ Abs(LastDeltaRight) > 2 * I16_MAX)
        => ds_last.tag = "Err" /\ ds = ds_last.pre

\* C17: pop_sample undoes the most recent successful instruction-emitting
\* sample_xy: afterwards current_ins is byte for byte what it was before that
\* sample_xy and both belt lengths are back; on a surface holding no
\* instruction it fails and changes nothing.
C17_PopUndoesSample ==
    ds_last.op = "pop_sample" =>
        IF ds_last.pre.current_ins = <<>>
        THEN ds_last.tag = "Err" /\ ds = ds_last.pre
        ELSE /\ ds_last.tag = "Ok"
             /\ ds.current_ins = ds_last.undone[1].current_ins
             /\ ds.belts = ds_last.undone[1].belts

\* C18: after any sequence of successful sample_xy calls, replaying the
\* surface's bytes as the preview does, from the first sample, ends with each
\* belt length within one step of the belt lengths of the last sampled point.
C18_ReplayReachesLastSample ==
    (/\ ds_last.op = "sample_xy" /\ ds_last.tag = "Ok"
     /\ ds_last.pre.first_sample # <<>>
     /\ ds_popped = 0)
        => LET replayed == preview_belts(ds.first_sample[1], ds.current_ins, build)
               target == cartesian_to_belt(ds_last.pt[1])
           IN  /\ replayed.tag = "Ok"
               /\ Abs(replayed.belts[1] - target[1]) <= 2
               /\ Abs(replayed.belts[2] - target[2]) <= 2

\* The step fields encoded in current_ins: the left and the right step of
\* each 5-byte instruction.
EncodedSteps ==
    { read_i16(ds.current_ins[5 * i - 4], ds.current_ins[5 * i - 3]) :
        i \in 1 .. Len(ds.current_ins) \div 5 }
    \cup { read_i16(ds.current_ins[5 * i - 2], ds.current_ins[5 * i - 1]) :
             i \in 1 .. Len(ds.current_ins) \div 5 }

\* C29: every step count that sample_xy accepts and encodes lies in
\* [-32767, 32767], so negating it stays within i16: neither the belt update
\* in sample_xy nor the reversal in pop_sample overflows.
C29_EncodedStepsNegatable ==
    /\ \A v \in EncodedSteps : -I16_MAX <= v /\ v <= I16_MAX
    /\ ds_last.tag # "panic"

\* What holds of the encoded steps: they are i16 values, -32768 among them,
\* and a call panics on the negation only in a debug build.
EncodedStepsRange ==
    /\ \A v \in EncodedSteps : I16_MIN <= v /\ v <= I16_MAX
    /\ ds_last.tag = "panic" => build = "debug"

\* ----------------------------------------------- claims on SpecMove

\* What move_to_start wrote, one entry per write call that reached the socket.
MoveWire ==
    LET w == SelectSeq(log, LAMBDA e : e.kind = "write" /\ e.by = MoveTask)
    IN  [i \in 1 .. Len(w) |-> w[i].bytes]

\* What move_to_start has to have written once k requests reached it: the
\* greeting, the 0x01-prefixed instructions for the first, 0x02 for the next.
MoveAnswers(k) ==
    << <<0, 1>> >>
    \o (IF k >= 1 THEN << <<1>> \o binary >> ELSE <<>>)
    \o (IF k >= 2 THEN << <<2>> >> ELSE <<>>)

\* The firmware accepted the greeting with a header whose buffer holds the
\* instructions, the connection works and move_to_start is done with what it
\* read so far.
MoveSettled ==
    /\ conn = "open" /\ peer = "open"
    /\ m_reply # <<>> /\ m_reply[1] = 1
    /\ read_header(m_reply).instruction_buffer_size >= Len(binary)
    /\ m_pc \in {"read", "done"}

\* C19: move_to_start writes the greeting first, then in reply to the first
\* 0x03 the pen-to-start instruction bytes exactly once as a single
\* 0x01-prefixed chunk, and in reply to the next 0x03 writes 0x02 and returns
\* Ok; it never writes 0x02 before the chunk and never sends the chunk twice.
C19_MoveChunkThenFinish ==
    /\ IsPrefix(MoveWire, MoveAnswers(2))
    /\ MoveSettled =>
          /\ MoveWire = MoveAnswers(Min(m_reqs_read, 2))
          /\ m_reqs_read >= 2 => m_pc = "done" /\ m_result = "Ok"
          /\ m_reqs_read < 2 => m_pc = "read" /\ m_result = "none"

\* What holds of move_to_start whatever the reads: its writes are a prefix of
\* greeting, chunk, 0x02, it returns Ok only after all three, and when every
\* read brought one message the requests that reached it are answered.
MoveAnswersInOrder ==
    /\ IsPrefix(MoveWire, MoveAnswers(2))
    /\ m_result = "Ok" => MoveWire = MoveAnswers(2) \/ conn = "reset"
    /\ (MoveSettled /\ ~m_split) =>
          /\ MoveWire = MoveAnswers(Min(m_reqs_read, 2))
          /\ m_reqs_read >= 2 => m_pc = "done" /\ m_result = "Ok"
          /\ m_reqs_read < 2 => m_pc = "read" /\ m_result = "none"

\* ----------------------------------------------- claims on SpecTime

\* The walk over a slice read off the grammar: from offset s, fewer than five
\* bytes left is the end of the stream, a well-formed instruction is stepped
\* over and adds max(|left|, |right|) to the steps counted, anything else is a
\* malformed instruction.  totals are the sums after each instruction.
RECURSIVE GrammarWalk(_, _, _)
GrammarWalk(bin, s, totals) ==
    IF s + 4 >= Len(bin) THEN [malformed |-> FALSE, totals |-> totals]
    ELSE IF InsEndAt(bin, s) = -1 THEN [malformed |-> TRUE, totals |-> totals]
    ELSE LET left == Abs(read_i16(At(bin, s), At(bin, s + 1)))
             right == Abs(read_i16(At(bin, s + 2), At(bin, s + 3)))
             most == IF left >= right THEN left ELSE right
         IN  GrammarWalk(bin, InsEndAt(bin, s) + 1,
                         Append(totals, totals[Len(totals)] + most))

\* The running totals of the call, in steps (seconds times max_motor_speed).
DtTotals == [i \in 1 .. Len(dt.totals) |-> dt.totals[i].n]

\* C24: for any byte slice calculate_draw_time returns a zero duration when
\* its walk meets a malformed instruction, whatever it had accumulated, and
\* otherwise the accumulated total; it always returns a value rather than
\* failing, also for a slice that ends right after a pen-op byte.
C24_DrawTimeAlwaysReturns ==
    (dt.op = "calculate_draw_time" /\ dt_speed # 0) =>
        /\ dt.tag = "Ok"
        /\ IF GrammarWalk(dt_bytes, 0, <<0>>).malformed
           THEN dt.secs = 0
           ELSE dt.secs = DtTotals[Len(DtTotals)]

\* No step field of the slice is -32768 and no pen op is its last byte.
NoMinStep(bin) ==
    \A i \in 1 .. Len(bin) - 1 : ~(bin[i] = 128 /\ bin[i + 1] = 0)
PenOpLast(bin) == bin # <<>> /\ bin[Len(bin)] \in {PEN_UP, PEN_DOWN}

\* What holds of calculate_draw_time: on a slice without a -32768 field and
\* without a pen op as its last byte, and a speed that is not 0, it returns,
\* zero on a malformed instruction and the total of the grammar's walk
\* otherwise.
DrawTimeOfPlainSlices ==
    (/\ dt.op = "calculate_draw_time" /\ dt_speed # 0
     /\ NoMinStep(dt_bytes) /\ ~PenOpLast(dt_bytes)) =>
        LET walk == GrammarWalk(dt_bytes, 0, <<0>>) IN
        /\ dt.tag = "Ok"
        /\ IF walk.malformed THEN dt.secs = 0
           ELSE dt.secs = walk.totals[Len(walk.totals)]

\* C30: for every stream InstructionSet::new accepts, calculate_draw_time
\* computes max(|left|, |right|) of each instruction without i16 overflow and
\* its running total never decreases, also when a step field is -32768.
C30_DrawTimeNoOverflow ==
    (/\ dt.op = "calculate_draw_time" /\ dt_speed # 0
     /\ InstructionSet_new(dt_bytes).tag = "Ok") =>
        /\ dt.tag = "Ok"
        /\ DtTotals = GrammarWalk(dt_bytes, 0, <<0>>).totals
        /\ \A i \in 1 .. Len(DtTotals) - 1 : DtTotals[i] <= DtTotals[i + 1]

\* What holds for accepted streams: without a -32768 field the totals are the
\* grammar's and never decrease.
DrawTimeOfAcceptedPlain ==
    (/\ dt.op = "calculate_draw_time" /\ dt_speed # 0
     /\ InstructionSet_new(dt_bytes).tag = "Ok" /\ NoMinStep(dt_bytes)) =>
        /\ dt.tag = "Ok"
        /\ DtTotals = GrammarWalk(dt_bytes, 0, <<0>>).totals
        /\ \A i \in 1 .. Len(DtTotals) - 1 : DtTotals[i] <= DtTotals[i + 1]

\* ------------------------------------------------ claims on SpecHdr

\* The big-endian value of a byte string.
RECURSIVE BigEndianValue(_)
BigEndianValue(bytes) ==
    IF bytes = <<>> THEN 0
    ELSE 256 * BigEndianValue(SubSeq(bytes, 1, Len(bytes) - 1)) + bytes[Len(bytes)]

\* The bytes of a buffer at offsets from .. to (counted from 0).
BytesAt(buf, from, to) == SubSeq(buf, from + 1, to + 1)

\* C26: read_header decodes the greeting response as big-endian fields at
\* fixed offsets: protocol_version the u16 at bytes 1-2,
\* instruction_buffer_size the u32 at bytes 7-10, max_motor_speed the u32 at
\* bytes 11-14, min_pulse_width the u32 at bytes 15-18; bytes 0 and 3-6 do
\* not influence any returned field.
C26_HeaderFieldsBigEndian ==
    n_pc = "decoded" =>
        /\ header.protocol_version = BigEndianValue(BytesAt(inc_buffer, 1, 2))
        /\ header.instruction_buffer_size = BigEndianValue(BytesAt(inc_buffer, 7, 10))
        /\ header.max_motor_speed = BigEndianValue(BytesAt(inc_buffer, 11, 14))
        /\ header.min_pulse_width = BigEndianValue(BytesAt(inc_buffer, 15, 18))
        /\ \A other \in HeaderInputs :
              (BytesAt(other, 1, 2) = BytesAt(inc_buffer, 1, 2)
               /\ BytesAt(other, 7, 18) = BytesAt(inc_buffer, 7, 18))
                  => read_header(other) = header

\* C26's case: a header whose fields differ byte by byte was decoded, with a
\* first byte that is not 0x01 and reserved bytes that are not zero.
C26_Witness ==
    /\ n_pc = "decoded"
    /\ BytesAt(inc_buffer, 0, 6) = <<3, 2, 3, 9, 8, 7, 6>>
    /\ header.protocol_version = 515
    /\ header.instruction_buffer_size = 16909060
    /\ header.max_motor_speed = 512
    /\ header.min_pulse_width = 2147483518

====
